---- MODULE Spec2Model ----
(***************************************************************************)
(* Verification model of the GROMACS file layer:                            *)
(*   - the thread-safe registry of open files of src/gmxlib/gmxfio.c        *)
(*     (open_files, open_file_mutex, one tMPI lock per t_fileio), and       *)
(*   - the H5MD container GmxH5mdIo of src/gromacs/fileio/h5md_io.cpp.      *)
(* The registry is modelled at the granularity of one shared-memory access  *)
(* or one lock operation per step, as built with GMX_THREADS.               *)
(***************************************************************************)
EXTENDS Integers, Sequences, FiniteSets, TLC

\* ------------------------------------------------------------------ bounds
NumThreads == 2
MaxHandles == 2

\* --------------------------------------------------------------- constants
NULL     == -1        \* the null pointer / no FILE stream
Dummy    == 0         \* address of the dummy head element of open_files
NoThread == 0         \* an unlocked mutex or lock (TMPI_THREAD_MUTEX_INITIALIZER)
ForeignFp == 99       \* a FILE stream that no t_fileio of the registry wraps
Stdin  == 97          \* the FILE stream stdin
Stdout == 98          \* the FILE stream stdout
EOF    == -1          \* what fclose returns when it fails
CPT_CHK_LEN == 1048576   \* bytes of the end of a file that its checksum covers

Threads == 1..NumThreads
Handles == 1..MaxHandles          \* addresses snew() can return for a t_fileio
Nodes   == {Dummy} \cup Handles

VARIABLES
    \* --- registry (gmxfio.c)
    open_files,       \* NULL or the address of the dummy head element
    open_file_mutex,  \* owner of the coarse mutex, or NoThread
    next, prev,       \* t_fileio.next / t_fileio.prev of every node
    mtx,              \* t_fileio.mtx: owner of every node's lock, or NoThread
    mem,              \* "free" | "alloc": whether the address holds a t_fileio
    bOpen,            \* t_fileio.bOpen
    fp,               \* t_fileio.fp
    \* --- one record of locals per thread
    pc,               \* position of the thread in the function it executes
    op,               \* the exported function the thread is in
    fio,              \* the fio argument of the exported function
    cur,              \* cur of a traversing function
    ret,              \* ret of gmx_fio_get_first / gmx_fio_get_next
    lprev,            \* the local prev of gmx_fio_insert
    fparg,            \* the fp argument of gmx_fio_fclose
    \* --- history of the run (not program state)
    held,             \* the node locks a thread holds, in acquisition order
    live,             \* handles whose insert returned and whose close has not started
    closedPtrs,       \* handle pointers on which a close has completed
    dbl,              \* the thread is closing a handle that was closed before
    misuse,           \* the callers of this run may close a handle twice
    trav,             \* threads that got gmx_fio_get_first's result and have not ended
                      \* the traversal (gmx_fio_get_next returning NULL, or
                      \* gmx_fio_stop_getting_next)
    \* --- H5MD container (h5md_io.cpp)
    file_,            \* GmxH5mdIo::file_ (-1 when closed)
    filemode_,        \* GmxH5mdIo::filemode_
    dataBlocks_,      \* GmxH5mdIo::dataBlocks_ (std::list, in insertion order)
    fileExists,       \* gmx_fexist(fileName): the H5MD file is on disk
    disk,             \* the data-block groups stored in the file on disk: full HDF5
                      \* path |-> [chunk, frames], frames being the step and time
                      \* data sets up to their extent
    provenance,       \* the records of the provenance data sets of the file
    h5err,            \* the error the last GmxH5mdIo call threw, or "none"
    properties,       \* the property data sets of the file: name |-> stored values
    \* --- history of the H5MD run (not program state)
    numFlushes,       \* addToProvenanceRecord calls since the file was created
    \* --- the rest of t_fileio and the C library, used where a whole call of an
    \*     exported function is one step
    bRead,            \* t_fileio.bRead
    bReadWrite,       \* t_fileio.bReadWrite
    bStdio,           \* t_fileio.bStdio
    iFTP,             \* t_fileio.iFTP
    streams,          \* the FILE streams that are open: stdin, stdout and those ffopen
                      \* returned and ffclose has not closed
    result            \* what the last whole call returned to its caller

regvars == <<open_files, open_file_mutex, next, prev, mtx, mem, bOpen, fp,
             pc, op, fio, cur, ret, lprev, fparg, held, live, closedPtrs, dbl, misuse, trav>>
h5vars  == <<file_, filemode_, dataBlocks_, fileExists, disk, provenance, h5err,
             properties, numFlushes>>
callvars == <<bRead, bReadWrite, bStdio, iFTP, streams, result>>
vars    == <<regvars, h5vars, callvars>>

\* --------------------------------------------------------------- helpers
\* s without its elements equal to n
SeqRemove(s, n) == SelectSeq(s, LAMBDA x : x # n)

\* gmx_fatal and a segmentation fault both end the process
ProcessAlive == \A t \in Threads : pc[t] \notin {"fatal", "segv"}

\* tMPI_Lock_lock(&fio->mtx): a spin lock, it waits until the lock is free
gmx_fio_lock(t, n) ==
    /\ mtx[n] = NoThread
    /\ mtx' = [mtx EXCEPT ![n] = t]
    /\ held' = [held EXCEPT ![t] = Append(@, n)]

\* tMPI_Lock_unlock(&fio->mtx)
gmx_fio_unlock(t, n) ==
    /\ mtx' = [mtx EXCEPT ![n] = NoThread]
    /\ held' = [held EXCEPT ![t] = SeqRemove(@, n)]

\* tMPI_Thread_mutex_lock(&open_file_mutex)
tMPI_Thread_mutex_lock(t) ==
    /\ open_file_mutex = NoThread
    /\ open_file_mutex' = t

\* tMPI_Thread_mutex_unlock(&open_file_mutex)
tMPI_Thread_mutex_unlock(t) ==
    open_file_mutex' = NoThread

Goto(t, l) == pc' = [pc EXCEPT ![t] = l]

\* the thread returns from the exported function
Return(t) ==
    /\ pc' = [pc EXCEPT ![t] = "idle"]
    /\ op' = [op EXCEPT ![t] = "none"]
    /\ fio' = [fio EXCEPT ![t] = NULL]
    /\ cur' = [cur EXCEPT ![t] = NULL]
    /\ ret' = [ret EXCEPT ![t] = NULL]
    /\ lprev' = [lprev EXCEPT ![t] = NULL]
    /\ fparg' = [fparg EXCEPT ![t] = NULL]
    /\ dbl' = [dbl EXCEPT ![t] = FALSE]

\* some other thread is inside a per-handle function on h
InUse(t, h) == \E s \in Threads \ {t} : op[s] = "perhandle" /\ fio[s] = h

InitRegistry ==
    /\ open_files = NULL
    /\ open_file_mutex = NoThread
    /\ next = [n \in Nodes |-> n]     \* unallocated memory: any content
    /\ prev = [n \in Nodes |-> n]
    /\ mtx = [n \in Nodes |-> NoThread]
    /\ mem = [h \in Handles |-> "free"]
    /\ bOpen = [h \in Handles |-> FALSE]
    /\ fp = [h \in Handles |-> h]
    /\ pc = [t \in Threads |-> "idle"]
    /\ op = [t \in Threads |-> "none"]
    /\ fio = [t \in Threads |-> NULL]
    /\ cur = [t \in Threads |-> NULL]
    /\ ret = [t \in Threads |-> NULL]
    /\ lprev = [t \in Threads |-> NULL]
    /\ fparg = [t \in Threads |-> NULL]
    /\ held = [t \in Threads |-> <<>>]
    /\ live = {}
    /\ closedPtrs = {}
    /\ dbl = [t \in Threads |-> FALSE]
    /\ trav = {}

InitH5md ==
    /\ file_ = -1
    /\ filemode_ = "unset"     \* the constructor leaves it alone; it is read
                              \* only while file_ >= 0, after openFile set it
    /\ dataBlocks_ = <<>>
    /\ fileExists = FALSE
    /\ disk = <<>>
    /\ provenance = <<>>
    /\ h5err = "none"
    /\ properties = <<>>
    /\ numFlushes = 0

\* the fields mpi_fio_open sets hold anything before it runs; the streams of the
\* process are stdin and stdout
InitCalls ==
    /\ bRead = [h \in Handles |-> FALSE]
    /\ bReadWrite = [h \in Handles |-> FALSE]
    /\ bStdio = [h \in Handles |-> FALSE]
    /\ iFTP = [h \in Handles |-> "efNR"]
    /\ streams = {Stdin, Stdout}
    /\ result = [fn |-> "none"]

Init == InitRegistry /\ InitH5md /\ InitCalls /\ misuse = FALSE


\* groups of variables an action leaves alone
listvars == <<next, prev>>
hdlvars  == <<mem, bOpen, fp>>
locals   == <<op, fio, cur, ret, lprev, fparg, dbl>>
history  == <<live, closedPtrs, misuse, trav, h5vars, callvars>>

\* =====================================================================
\*  gmx_fio_open / mpi_fio_open and gmx_fio_insert
\* =====================================================================

\* a gmx_fio_make_dummy without the if (!open_files): it makes a new dummy head
\* at every call
gmx_fio_make_dummy_always ==
    /\ open_files' = Dummy
    /\ next' = [next EXCEPT ![Dummy] = Dummy]
    /\ prev' = [prev EXCEPT ![Dummy] = Dummy]
    /\ mtx' = [mtx EXCEPT ![Dummy] = NoThread]

\* gmx_fio_make_dummy(): allocate the dummy head element if there is none
gmx_fio_make_dummy ==
    IF open_files = NULL
    THEN /\ open_files' = Dummy
         /\ next' = [next EXCEPT ![Dummy] = Dummy]
         /\ prev' = [prev EXCEPT ![Dummy] = Dummy]
         /\ mtx' = [mtx EXCEPT ![Dummy] = NoThread]
    ELSE UNCHANGED <<open_files, next, prev, mtx>>

\* mpi_fio_open up to the call of gmx_fio_insert: snew(fio,1) at a free address h
\* (the allocator hands out the lowest free address: addresses are interchangeable),
\* tMPI_Lock_init, ffopen, bOpen = TRUE
mpi_fio_open(t, h) ==
    /\ pc[t] = "idle"
    /\ ProcessAlive
    /\ mem[h] = "free"
    /\ \A g \in Handles : mem[g] = "free" => h <= g
    /\ mem' = [mem EXCEPT ![h] = "alloc"]
    /\ next' = [next EXCEPT ![h] = NULL]
    /\ prev' = [prev EXCEPT ![h] = NULL]
    /\ mtx' = [mtx EXCEPT ![h] = NoThread]
    /\ fp' = [fp EXCEPT ![h] = h]
    /\ bOpen' = [bOpen EXCEPT ![h] = TRUE]
    /\ fio' = [fio EXCEPT ![t] = h]
    /\ op' = [op EXCEPT ![t] = "open"]
    /\ Goto(t, "ins_lock_mutex")
    /\ UNCHANGED <<open_files, open_file_mutex, cur, ret, lprev, fparg, dbl,
                   held, history>>

\* gmx_fio_insert: tMPI_Thread_mutex_lock(&open_file_mutex)
gmx_fio_insert_lock_mutex(t) ==
    /\ pc[t] = "ins_lock_mutex"
    /\ ProcessAlive
    /\ tMPI_Thread_mutex_lock(t)
    /\ Goto(t, "ins_make_dummy")
    /\ UNCHANGED <<open_files, listvars, mtx, hdlvars, locals, held, history>>

\* gmx_fio_insert: gmx_fio_make_dummy()
gmx_fio_insert_make_dummy(t) ==
    /\ pc[t] = "ins_make_dummy"
    /\ ProcessAlive
    /\ gmx_fio_make_dummy
    /\ Goto(t, "ins_lock_fio")
    /\ UNCHANGED <<open_file_mutex, hdlvars, locals, held, history>>

\* gmx_fio_insert: gmx_fio_lock(fio)
gmx_fio_insert_lock_fio(t) ==
    /\ pc[t] = "ins_lock_fio"
    /\ ProcessAlive
    /\ gmx_fio_lock(t, fio[t])
    /\ Goto(t, "ins_lock_head")
    /\ UNCHANGED <<open_files, open_file_mutex, listvars, hdlvars, locals, history>>

\* a gmx_fio_insert that does not lock the dummy head
gmx_fio_insert_skips_lock_head(t) ==
    /\ pc[t] = "ins_lock_head"
    /\ ProcessAlive
    /\ Goto(t, "ins_read_prev")
    /\ UNCHANGED <<open_files, open_file_mutex, listvars, mtx, hdlvars, locals, held, history>>

\* gmx_fio_insert: gmx_fio_lock(open_files)
gmx_fio_insert_lock_head(t) ==
    /\ pc[t] = "ins_lock_head"
    /\ ProcessAlive
    /\ gmx_fio_lock(t, open_files)
    /\ Goto(t, "ins_read_prev")
    /\ UNCHANGED <<open_files, open_file_mutex, listvars, hdlvars, locals, history>>

\* a gmx_fio_insert that links the new handle right behind the head
gmx_fio_insert_read_prev_head(t) ==
    /\ pc[t] = "ins_read_prev"
    /\ ProcessAlive
    /\ lprev' = [lprev EXCEPT ![t] = open_files]
    /\ Goto(t, "ins_set_fio_next")
    /\ UNCHANGED <<open_files, open_file_mutex, listvars, mtx, hdlvars,
                   op, fio, cur, ret, fparg, dbl, held, history>>

\* gmx_fio_insert: prev = open_files->prev; if (prev != open_files) ...
gmx_fio_insert_read_prev(t) ==
    /\ pc[t] = "ins_read_prev"
    /\ ProcessAlive
    /\ lprev' = [lprev EXCEPT ![t] = prev[open_files]]
    /\ Goto(t, IF prev[open_files] # open_files THEN "ins_lock_prev" ELSE "ins_set_fio_next")
    /\ UNCHANGED <<open_files, open_file_mutex, listvars, mtx, hdlvars,
                   op, fio, cur, ret, fparg, dbl, held, history>>

\* gmx_fio_insert: gmx_fio_lock(prev)
gmx_fio_insert_lock_prev(t) ==
    /\ pc[t] = "ins_lock_prev"
    /\ ProcessAlive
    /\ gmx_fio_lock(t, lprev[t])
    /\ Goto(t, "ins_set_fio_next")
    /\ UNCHANGED <<open_files, open_file_mutex, listvars, hdlvars, locals, history>>

\* gmx_fio_insert: fio->next = open_files
gmx_fio_insert_set_fio_next(t) ==
    /\ pc[t] = "ins_set_fio_next"
    /\ ProcessAlive
    /\ next' = [next EXCEPT ![fio[t]] = open_files]
    /\ Goto(t, "ins_set_head_prev")
    /\ UNCHANGED <<open_files, open_file_mutex, prev, mtx, hdlvars, locals, held, history>>

\* gmx_fio_insert: open_files->prev = fio
gmx_fio_insert_set_head_prev(t) ==
    /\ pc[t] = "ins_set_head_prev"
    /\ ProcessAlive
    /\ prev' = [prev EXCEPT ![open_files] = fio[t]]
    /\ Goto(t, "ins_set_prev_next")
    /\ UNCHANGED <<open_files, open_file_mutex, next, mtx, hdlvars, locals, held, history>>

\* a gmx_fio_insert that forgets prev->next = fio
gmx_fio_insert_forgets_prev_next(t) ==
    /\ pc[t] = "ins_set_prev_next"
    /\ ProcessAlive
    /\ Goto(t, "ins_set_fio_prev")
    /\ UNCHANGED <<open_files, open_file_mutex, listvars, mtx, hdlvars, locals, held, history>>

\* gmx_fio_insert: prev->next = fio
gmx_fio_insert_set_prev_next(t) ==
    /\ pc[t] = "ins_set_prev_next"
    /\ ProcessAlive
    /\ next' = [next EXCEPT ![lprev[t]] = fio[t]]
    /\ Goto(t, "ins_set_fio_prev")
    /\ UNCHANGED <<open_files, open_file_mutex, prev, mtx, hdlvars, locals, held, history>>

\* gmx_fio_insert: fio->prev = prev; if (prev != open_files) ...
gmx_fio_insert_set_fio_prev(t) ==
    /\ pc[t] = "ins_set_fio_prev"
    /\ ProcessAlive
    /\ prev' = [prev EXCEPT ![fio[t]] = lprev[t]]
    /\ Goto(t, IF lprev[t] # open_files THEN "ins_unlock_prev" ELSE "ins_unlock_head")
    /\ UNCHANGED <<open_files, open_file_mutex, next, mtx, hdlvars, locals, held, history>>

\* gmx_fio_insert: gmx_fio_unlock(prev)
gmx_fio_insert_unlock_prev(t) ==
    /\ pc[t] = "ins_unlock_prev"
    /\ ProcessAlive
    /\ gmx_fio_unlock(t, lprev[t])
    /\ Goto(t, "ins_unlock_head")
    /\ UNCHANGED <<open_files, open_file_mutex, listvars, hdlvars, locals, history>>

\* gmx_fio_insert: gmx_fio_unlock(open_files)
gmx_fio_insert_unlock_head(t) ==
    /\ pc[t] = "ins_unlock_head"
    /\ ProcessAlive
    /\ gmx_fio_unlock(t, open_files)
    /\ Goto(t, "ins_unlock_fio")
    /\ UNCHANGED <<open_files, open_file_mutex, listvars, hdlvars, locals, history>>

\* gmx_fio_insert: gmx_fio_unlock(fio)
gmx_fio_insert_unlock_fio(t) ==
    /\ pc[t] = "ins_unlock_fio"
    /\ ProcessAlive
    /\ gmx_fio_unlock(t, fio[t])
    /\ Goto(t, "ins_unlock_mutex")
    /\ UNCHANGED <<open_files, open_file_mutex, listvars, hdlvars, locals, history>>

\* gmx_fio_insert: tMPI_Thread_mutex_unlock(&open_file_mutex); mpi_fio_open returns fio
gmx_fio_insert_unlock_mutex(t) ==
    /\ pc[t] = "ins_unlock_mutex"
    /\ ProcessAlive
    /\ tMPI_Thread_mutex_unlock(t)
    /\ live' = live \cup {fio[t]}
    /\ Return(t)
    /\ UNCHANGED <<open_files, listvars, mtx, hdlvars, held, closedPtrs, misuse, h5vars, callvars, trav>>

gmx_fio_open(t) ==
    \/ \E h \in Handles : mpi_fio_open(t, h)
    \/ gmx_fio_insert_lock_mutex(t)
    \/ gmx_fio_insert_make_dummy(t)
    \/ gmx_fio_insert_lock_fio(t)
    \/ gmx_fio_insert_lock_head(t)
    \/ gmx_fio_insert_read_prev(t)
    \/ gmx_fio_insert_lock_prev(t)
    \/ gmx_fio_insert_set_fio_next(t)
    \/ gmx_fio_insert_set_head_prev(t)
    \/ gmx_fio_insert_set_prev_next(t)
    \/ gmx_fio_insert_set_fio_prev(t)
    \/ gmx_fio_insert_unlock_prev(t)
    \/ gmx_fio_insert_unlock_head(t)
    \/ gmx_fio_insert_unlock_fio(t)
    \/ gmx_fio_insert_unlock_mutex(t)


\* =====================================================================
\*  gmx_fio_close, gmx_fio_remove, gmx_fio_close_locked
\* =====================================================================

\* the t_fileio that gmx_fio_remove / gmx_fio_close_locked work on:
\* fio in gmx_fio_close, cur in gmx_fio_fclose
Target(t) == IF op[t] = "fclose" THEN cur[t] ELSE fio[t]

\* some thread is opening, closing or using the t_fileio at address h
Busy(h) ==
    \E s \in Threads :
        \/ op[s] \in {"open", "close", "perhandle"} /\ fio[s] = h
        \/ op[s] = "fclose" /\ fparg[s] = fp[h]

\* a caller calls gmx_fio_close(fio) on a handle it opened and has not closed
gmx_fio_close_call(t, h) ==
    /\ pc[t] = "idle"
    /\ ProcessAlive
    /\ h \in live
    /\ ~InUse(t, h)
    /\ live' = live \ {h}
    /\ fio' = [fio EXCEPT ![t] = h]
    /\ op' = [op EXCEPT ![t] = "close"]
    /\ Goto(t, "cl_lock_mutex")
    /\ UNCHANGED <<open_files, open_file_mutex, listvars, mtx, hdlvars,
                   cur, ret, lprev, fparg, dbl, held, closedPtrs, misuse, h5vars, callvars, trav>>

\* gmx_fio_close: tMPI_Thread_mutex_lock(&open_file_mutex)
gmx_fio_close_lock_mutex(t) ==
    /\ pc[t] = "cl_lock_mutex"
    /\ ProcessAlive
    /\ tMPI_Thread_mutex_lock(t)
    /\ Goto(t, "cl_lock_fio")
    /\ UNCHANGED <<open_files, listvars, mtx, hdlvars, locals, held, history>>

\* a gmx_fio_close that does not lock fio before it removes it
gmx_fio_close_skips_lock_fio(t) ==
    /\ pc[t] = "cl_lock_fio"
    /\ ProcessAlive
    /\ Goto(t, "rm_lock_prev")
    /\ UNCHANGED <<open_files, open_file_mutex, listvars, mtx, hdlvars, locals, held, history>>

\* gmx_fio_close: gmx_fio_lock(fio)
gmx_fio_close_lock_fio(t) ==
    /\ pc[t] = "cl_lock_fio"
    /\ ProcessAlive
    /\ gmx_fio_lock(t, fio[t])
    /\ Goto(t, "rm_lock_prev")
    /\ UNCHANGED <<open_files, open_file_mutex, listvars, hdlvars, locals, history>>

\* gmx_fio_remove: gmx_fio_lock(fio->prev)
gmx_fio_remove_lock_prev(t) ==
    /\ pc[t] = "rm_lock_prev"
    /\ ProcessAlive
    /\ gmx_fio_lock(t, prev[Target(t)])
    /\ Goto(t, "rm_set_prev_next")
    /\ UNCHANGED <<open_files, open_file_mutex, listvars, hdlvars, locals, history>>

\* gmx_fio_remove: fio->prev->next = fio->next
gmx_fio_remove_set_prev_next(t) ==
    /\ pc[t] = "rm_set_prev_next"
    /\ ProcessAlive
    /\ next' = [next EXCEPT ![prev[Target(t)]] = next[Target(t)]]
    /\ Goto(t, "rm_unlock_prev")
    /\ UNCHANGED <<open_files, open_file_mutex, prev, mtx, hdlvars, locals, held, history>>

\* gmx_fio_remove: gmx_fio_unlock(fio->prev)
gmx_fio_remove_unlock_prev(t) ==
    /\ pc[t] = "rm_unlock_prev"
    /\ ProcessAlive
    /\ gmx_fio_unlock(t, prev[Target(t)])
    /\ Goto(t, "rm_lock_next")
    /\ UNCHANGED <<open_files, open_file_mutex, listvars, hdlvars, locals, history>>

\* gmx_fio_remove: gmx_fio_lock(fio->next)
gmx_fio_remove_lock_next(t) ==
    /\ pc[t] = "rm_lock_next"
    /\ ProcessAlive
    /\ gmx_fio_lock(t, next[Target(t)])
    /\ Goto(t, "rm_set_next_prev")
    /\ UNCHANGED <<open_files, open_file_mutex, listvars, hdlvars, locals, history>>

\* gmx_fio_remove: fio->next->prev = fio->prev
gmx_fio_remove_set_next_prev(t) ==
    /\ pc[t] = "rm_set_next_prev"
    /\ ProcessAlive
    /\ prev' = [prev EXCEPT ![next[Target(t)]] = prev[Target(t)]]
    /\ Goto(t, "rm_unlock_next")
    /\ UNCHANGED <<open_files, open_file_mutex, next, mtx, hdlvars, locals, held, history>>

\* gmx_fio_remove: gmx_fio_unlock(fio->next)
gmx_fio_remove_unlock_next(t) ==
    /\ pc[t] = "rm_unlock_next"
    /\ ProcessAlive
    /\ gmx_fio_unlock(t, next[Target(t)])
    /\ Goto(t, "rm_self")
    /\ UNCHANGED <<open_files, open_file_mutex, listvars, hdlvars, locals, history>>

\* gmx_fio_remove: fio->next = fio->prev = fio; back in the caller
gmx_fio_remove_self(t) ==
    /\ pc[t] = "rm_self"
    /\ ProcessAlive
    /\ next' = [next EXCEPT ![Target(t)] = Target(t)]
    /\ prev' = [prev EXCEPT ![Target(t)] = Target(t)]
    /\ Goto(t, IF op[t] = "fclose" THEN "stop_unlock_fio" ELSE "cll_check")
    /\ UNCHANGED <<open_files, open_file_mutex, mtx, hdlvars, locals, held, history>>

\* gmx_fio_close_locked: if (!fio->bOpen) gmx_fatal(...); xdr_destroy, ffclose;
\* fio->bOpen = FALSE
gmx_fio_close_locked(t) ==
    /\ pc[t] = "cll_check"
    /\ ProcessAlive
    /\ IF ~bOpen[Target(t)]
       THEN /\ Goto(t, "fatal")
            /\ UNCHANGED bOpen
       ELSE /\ bOpen' = [bOpen EXCEPT ![Target(t)] = FALSE]
            /\ Goto(t, IF op[t] = "fclose" THEN "rm_lock_prev" ELSE "cl_unlock_fio")
    /\ UNCHANGED <<open_files, open_file_mutex, listvars, mtx, mem, fp, locals,
                   held, history>>

\* gmx_fio_close: gmx_fio_unlock(fio)
gmx_fio_close_unlock_fio(t) ==
    /\ pc[t] = "cl_unlock_fio"
    /\ ProcessAlive
    /\ gmx_fio_unlock(t, fio[t])
    /\ Goto(t, "cl_free")
    /\ UNCHANGED <<open_files, open_file_mutex, listvars, hdlvars, locals, history>>

\* gmx_fio_close: sfree(fio)
gmx_fio_close_sfree(t) ==
    /\ pc[t] = "cl_free"
    /\ ProcessAlive
    /\ mem' = [mem EXCEPT ![fio[t]] = "free"]
    /\ Goto(t, "cl_unlock_mutex")
    /\ UNCHANGED <<open_files, open_file_mutex, listvars, mtx, bOpen, fp, locals,
                   held, history>>

\* gmx_fio_close: tMPI_Thread_mutex_unlock(&open_file_mutex); return rc
gmx_fio_close_unlock_mutex(t) ==
    /\ pc[t] = "cl_unlock_mutex"
    /\ ProcessAlive
    /\ tMPI_Thread_mutex_unlock(t)
    /\ closedPtrs' = IF misuse THEN closedPtrs \cup {fio[t]} ELSE closedPtrs
    /\ Return(t)
    /\ UNCHANGED <<open_files, listvars, mtx, hdlvars, held, live, misuse, h5vars, callvars, trav>>

gmx_fio_close(t) ==
    \/ \E h \in Handles : gmx_fio_close_call(t, h)
    \/ gmx_fio_close_lock_mutex(t)
    \/ gmx_fio_close_lock_fio(t)
    \/ gmx_fio_close_unlock_fio(t)
    \/ gmx_fio_close_sfree(t)
    \/ gmx_fio_close_unlock_mutex(t)

gmx_fio_remove(t) ==
    \/ gmx_fio_remove_lock_prev(t)
    \/ gmx_fio_remove_set_prev_next(t)
    \/ gmx_fio_remove_unlock_prev(t)
    \/ gmx_fio_remove_lock_next(t)
    \/ gmx_fio_remove_set_next_prev(t)
    \/ gmx_fio_remove_unlock_next(t)
    \/ gmx_fio_remove_self(t)


\* =====================================================================
\*  traversal: gmx_fio_get_first, gmx_fio_get_next, gmx_fio_stop_getting_next
\*  and the functions that loop over the open files
\* =====================================================================

\* a caller calls gmx_fio_fclose(fp) with the stream of a handle it opened with
\* gmx_fio_fopen and has not closed, or with a stream the registry does not know
gmx_fio_fclose_call(t, f) ==
    /\ pc[t] = "idle"
    /\ ProcessAlive
    /\ \/ f = ForeignFp /\ UNCHANGED live
       \/ \E h \in live : /\ fp[h] = f
                          /\ ~InUse(t, h)
                          /\ live' = live \ {h}
    /\ fparg' = [fparg EXCEPT ![t] = f]
    /\ op' = [op EXCEPT ![t] = "fclose"]
    /\ Goto(t, "gf_lock_mutex")
    /\ UNCHANGED <<open_files, open_file_mutex, listvars, mtx, hdlvars,
                   fio, cur, ret, lprev, dbl, held, closedPtrs, misuse, h5vars, callvars, trav>>

\* a caller calls gmx_fio_all_output_fsync() or gmx_fio_get_output_file_positions():
\* both are the same loop over the open files, with I/O on cur in its body
gmx_fio_traverse_call(t) ==
    /\ pc[t] = "idle"
    /\ ProcessAlive
    /\ op' = [op EXCEPT ![t] = "output_loop"]
    /\ Goto(t, "gf_lock_mutex")
    /\ UNCHANGED <<open_files, open_file_mutex, listvars, mtx, hdlvars,
                   fio, cur, ret, lprev, fparg, dbl, held, history>>

\* a gmx_fio_get_first that goes on without open_file_mutex
gmx_fio_get_first_skips_mutex(t) ==
    /\ pc[t] = "gf_lock_mutex"
    /\ ProcessAlive
    /\ Goto(t, "gf_make_dummy")
    /\ UNCHANGED <<open_files, open_file_mutex, listvars, mtx, hdlvars, locals, held, history>>

\* gmx_fio_get_first: tMPI_Thread_mutex_lock(&open_file_mutex)
gmx_fio_get_first_lock_mutex(t) ==
    /\ pc[t] = "gf_lock_mutex"
    /\ ProcessAlive
    /\ tMPI_Thread_mutex_lock(t)
    /\ Goto(t, "gf_make_dummy")
    /\ UNCHANGED <<open_files, listvars, mtx, hdlvars, locals, held, history>>

\* gmx_fio_get_first: gmx_fio_make_dummy()
gmx_fio_get_first_make_dummy(t) ==
    /\ pc[t] = "gf_make_dummy"
    /\ ProcessAlive
    /\ gmx_fio_make_dummy
    /\ Goto(t, "gf_lock_head")
    /\ UNCHANGED <<open_file_mutex, hdlvars, locals, held, history>>

\* gmx_fio_get_first: gmx_fio_lock(open_files)
gmx_fio_get_first_lock_head(t) ==
    /\ pc[t] = "gf_lock_head"
    /\ ProcessAlive
    /\ gmx_fio_lock(t, open_files)
    /\ Goto(t, "gf_read_next")
    /\ UNCHANGED <<open_files, open_file_mutex, listvars, hdlvars, locals, history>>

\* gmx_fio_get_first: ret = open_files->next; if (ret == open_files) ret = NULL
gmx_fio_get_first_read_next(t) ==
    /\ pc[t] = "gf_read_next"
    /\ ProcessAlive
    /\ IF next[open_files] = open_files
       THEN /\ ret' = [ret EXCEPT ![t] = NULL]
            /\ Goto(t, "gf_unlock_head")
       ELSE /\ ret' = [ret EXCEPT ![t] = next[open_files]]
            /\ Goto(t, "gf_lock_first")
    /\ UNCHANGED <<open_files, open_file_mutex, listvars, mtx, hdlvars,
                   op, fio, cur, lprev, fparg, dbl, held, history>>

\* gmx_fio_get_first: gmx_fio_lock(open_files->next)
gmx_fio_get_first_lock_first(t) ==
    /\ pc[t] = "gf_lock_first"
    /\ ProcessAlive
    /\ gmx_fio_lock(t, next[open_files])
    /\ Goto(t, "gf_unlock_head")
    /\ UNCHANGED <<open_files, open_file_mutex, listvars, hdlvars, locals, history>>

\* a gmx_fio_get_first that returns without gmx_fio_unlock(open_files)
gmx_fio_get_first_keeps_head(t) ==
    /\ pc[t] = "gf_unlock_head"
    /\ ProcessAlive
    /\ cur' = [cur EXCEPT ![t] = ret[t]]
    /\ trav' = trav \cup {t}
    /\ Goto(t, "loop")
    /\ UNCHANGED <<open_files, open_file_mutex, listvars, mtx, hdlvars, held,
                   op, fio, ret, lprev, fparg, dbl, live, closedPtrs, misuse, h5vars, callvars>>

\* gmx_fio_get_first: gmx_fio_unlock(open_files); return ret  (cur = ret in the caller)
gmx_fio_get_first_unlock_head(t) ==
    /\ pc[t] = "gf_unlock_head"
    /\ ProcessAlive
    /\ gmx_fio_unlock(t, open_files)
    /\ cur' = [cur EXCEPT ![t] = ret[t]]
    /\ trav' = trav \cup {t}
    /\ Goto(t, "loop")
    /\ UNCHANGED <<open_files, open_file_mutex, listvars, hdlvars,
                   op, fio, ret, lprev, fparg, dbl, live, closedPtrs, misuse, h5vars, callvars>>

\* while (cur) of the caller is left with cur == NULL: the function returns
\* (gmx_fio_fclose returns rc = -1, the other two their result)
gmx_fio_loop_done(t) ==
    /\ pc[t] = "loop"
    /\ ProcessAlive
    /\ cur[t] = NULL
    /\ Return(t)
    /\ UNCHANGED <<open_files, open_file_mutex, listvars, mtx, hdlvars, held, history>>

\* gmx_fio_fclose: if (cur->fp == fp): rc = gmx_fio_close_locked(cur) follows
gmx_fio_fclose_found(t) ==
    /\ pc[t] = "loop"
    /\ ProcessAlive
    /\ cur[t] # NULL
    /\ op[t] = "fclose"
    /\ fp[cur[t]] = fparg[t]
    /\ Goto(t, "cll_check")
    /\ UNCHANGED <<open_files, open_file_mutex, listvars, mtx, hdlvars, locals,
                   held, history>>

\* the body of the loop for a handle that is not the one gmx_fio_fclose looks for,
\* or the body of gmx_fio_all_output_fsync / gmx_fio_get_output_file_positions
\* (I/O on cur under cur's lock); cur = gmx_fio_get_next(cur) follows
gmx_fio_loop_visit(t) ==
    /\ pc[t] = "loop"
    /\ ProcessAlive
    /\ cur[t] # NULL
    /\ op[t] = "fclose" => fp[cur[t]] # fparg[t]
    /\ Goto(t, "gn_read_next")
    /\ UNCHANGED <<open_files, open_file_mutex, listvars, mtx, hdlvars, locals,
                   held, history>>

\* gmx_fio_get_next: ret = fio->next; if (fio->next == open_files) ret = NULL
gmx_fio_get_next_read_next(t) ==
    /\ pc[t] = "gn_read_next"
    /\ ProcessAlive
    /\ IF next[cur[t]] = open_files
       THEN /\ ret' = [ret EXCEPT ![t] = NULL]
            /\ Goto(t, "gn_unlock_mutex")
       ELSE /\ ret' = [ret EXCEPT ![t] = next[cur[t]]]
            /\ Goto(t, "gn_lock_next")
    /\ UNCHANGED <<open_files, open_file_mutex, listvars, mtx, hdlvars,
                   op, fio, cur, lprev, fparg, dbl, held, history>>

\* gmx_fio_get_next, last handle: tMPI_Thread_mutex_unlock(&open_file_mutex)
gmx_fio_get_next_unlock_mutex(t) ==
    /\ pc[t] = "gn_unlock_mutex"
    /\ ProcessAlive
    /\ tMPI_Thread_mutex_unlock(t)
    /\ Goto(t, "gn_unlock_fio")
    /\ UNCHANGED <<open_files, listvars, mtx, hdlvars, locals, held, history>>

\* a gmx_fio_get_next that gives up open_file_mutex at every handle, not only at
\* the last one
gmx_fio_get_next_drops_mutex(t) ==
    /\ pc[t] = "gn_lock_next"
    /\ ProcessAlive
    /\ gmx_fio_lock(t, ret[t])
    /\ tMPI_Thread_mutex_unlock(t)
    /\ Goto(t, "gn_unlock_fio")
    /\ UNCHANGED <<open_files, listvars, hdlvars, locals, history>>

\* gmx_fio_get_next, not the last handle: gmx_fio_lock(ret)
gmx_fio_get_next_lock_next(t) ==
    /\ pc[t] = "gn_lock_next"
    /\ ProcessAlive
    /\ gmx_fio_lock(t, ret[t])
    /\ Goto(t, "gn_unlock_fio")
    /\ UNCHANGED <<open_files, open_file_mutex, listvars, hdlvars, locals, history>>

\* gmx_fio_get_next: gmx_fio_unlock(fio); return ret  (cur = ret in the caller)
gmx_fio_get_next_unlock_fio(t) ==
    /\ pc[t] = "gn_unlock_fio"
    /\ ProcessAlive
    /\ gmx_fio_unlock(t, cur[t])
    /\ cur' = [cur EXCEPT ![t] = ret[t]]
    /\ trav' = IF ret[t] = NULL THEN trav \ {t} ELSE trav
    /\ Goto(t, "loop")
    /\ UNCHANGED <<open_files, open_file_mutex, listvars, hdlvars,
                   op, fio, ret, lprev, fparg, dbl, live, closedPtrs, misuse, h5vars, callvars>>

\* gmx_fio_stop_getting_next: gmx_fio_unlock(fio)
gmx_fio_stop_getting_next_unlock_fio(t) ==
    /\ pc[t] = "stop_unlock_fio"
    /\ ProcessAlive
    /\ gmx_fio_unlock(t, cur[t])
    /\ Goto(t, "stop_unlock_mutex")
    /\ UNCHANGED <<open_files, open_file_mutex, listvars, hdlvars, locals, history>>

\* gmx_fio_stop_getting_next: tMPI_Thread_mutex_unlock(&open_file_mutex);
\* gmx_fio_fclose breaks out of the loop and returns rc
gmx_fio_stop_getting_next_unlock_mutex(t) ==
    /\ pc[t] = "stop_unlock_mutex"
    /\ ProcessAlive
    /\ tMPI_Thread_mutex_unlock(t)
    /\ closedPtrs' = IF misuse THEN closedPtrs \cup {cur[t]} ELSE closedPtrs
    /\ trav' = trav \ {t}
    /\ Return(t)
    /\ UNCHANGED <<open_files, listvars, mtx, hdlvars, held, live, misuse, h5vars, callvars>>

gmx_fio_get_first(t) ==
    \/ gmx_fio_get_first_lock_mutex(t)
    \/ gmx_fio_get_first_make_dummy(t)
    \/ gmx_fio_get_first_lock_head(t)
    \/ gmx_fio_get_first_read_next(t)
    \/ gmx_fio_get_first_lock_first(t)
    \/ gmx_fio_get_first_unlock_head(t)

gmx_fio_get_next(t) ==
    \/ gmx_fio_get_next_read_next(t)
    \/ gmx_fio_get_next_unlock_mutex(t)
    \/ gmx_fio_get_next_lock_next(t)
    \/ gmx_fio_get_next_unlock_fio(t)

gmx_fio_stop_getting_next(t) ==
    \/ gmx_fio_stop_getting_next_unlock_fio(t)
    \/ gmx_fio_stop_getting_next_unlock_mutex(t)

gmx_fio_traverse(t) ==
    \/ \E f \in Handles \cup {ForeignFp} : gmx_fio_fclose_call(t, f)
    \/ gmx_fio_traverse_call(t)
    \/ gmx_fio_loop_done(t)
    \/ gmx_fio_fclose_found(t)
    \/ gmx_fio_loop_visit(t)

\* =====================================================================
\*  per-handle functions: gmx_fio_flush, gmx_fio_fsync, gmx_fio_seek,
\*  gmx_fio_ftell, gmx_fio_rewind, gmx_fio_get_file_md5, the getters and setters
\* =====================================================================

\* a caller calls a per-handle function on a handle it opened and has not closed
gmx_fio_perhandle_call(t, h) ==
    /\ pc[t] = "idle"
    /\ ProcessAlive
    /\ h \in live
    /\ fio' = [fio EXCEPT ![t] = h]
    /\ op' = [op EXCEPT ![t] = "perhandle"]
    /\ Goto(t, "ph_lock")
    /\ UNCHANGED <<open_files, open_file_mutex, listvars, mtx, hdlvars,
                   cur, ret, lprev, fparg, dbl, held, history>>

\* a per-handle function that takes open_file_mutex as well
gmx_fio_perhandle_lock_coarse(t) ==
    /\ pc[t] = "ph_lock"
    /\ ProcessAlive
    /\ tMPI_Thread_mutex_lock(t)
    /\ gmx_fio_lock(t, fio[t])
    /\ Goto(t, "ph_io")
    /\ UNCHANGED <<open_files, listvars, hdlvars, locals, history>>

\* gmx_fio_lock(fio) at the head of the function
gmx_fio_perhandle_lock(t) ==
    /\ pc[t] = "ph_lock"
    /\ ProcessAlive
    /\ gmx_fio_lock(t, fio[t])
    /\ Goto(t, "ph_io")
    /\ UNCHANGED <<open_files, open_file_mutex, listvars, hdlvars, locals, history>>

\* the I/O on fio, then gmx_fio_unlock(fio); return
gmx_fio_perhandle_unlock(t) ==
    /\ pc[t] = "ph_io"
    /\ ProcessAlive
    /\ gmx_fio_unlock(t, fio[t])
    /\ Return(t)
    /\ UNCHANGED <<open_files, open_file_mutex, listvars, hdlvars, history>>

gmx_fio_perhandle(t) ==
    \/ \E h \in Handles : gmx_fio_perhandle_call(t, h)
    \/ gmx_fio_perhandle_lock(t)
    \/ gmx_fio_perhandle_unlock(t)

\* =====================================================================
\*  the registry used by NumThreads threads
\* =====================================================================
Step(t) ==
    \/ gmx_fio_open(t)
    \/ gmx_fio_close(t)
    \/ gmx_fio_remove(t)
    \/ gmx_fio_close_locked(t)
    \/ gmx_fio_get_first(t)
    \/ gmx_fio_get_next(t)
    \/ gmx_fio_stop_getting_next(t)
    \/ gmx_fio_traverse(t)
    \/ gmx_fio_perhandle(t)

Next == \E t \in Threads : Step(t)

Spec == Init /\ [][Next]_vars


\* =====================================================================
\*  callers that close a handle twice
\* =====================================================================

\* a caller calls gmx_fio_close(fio) with a pointer on which gmx_fio_close or
\* gmx_fio_fclose has already completed.  After gmx_fio_fclose the t_fileio is
\* still allocated; after gmx_fio_close it was passed to sfree, and every access
\* to it is a use after free: the memory may still hold what the close left, may
\* by now hold a newly opened t_fileio, or the access may fault.
gmx_fio_close_again_call(t, h) ==
    /\ pc[t] = "idle"
    /\ ProcessAlive
    /\ misuse
    /\ h \in closedPtrs
    /\ ~Busy(h)
    /\ live' = live \ {h}
    /\ fio' = [fio EXCEPT ![t] = h]
    /\ op' = [op EXCEPT ![t] = "close"]
    /\ dbl' = [dbl EXCEPT ![t] = TRUE]
    /\ Goto(t, "cl_lock_mutex")
    /\ UNCHANGED <<open_files, open_file_mutex, listvars, mtx, hdlvars,
                   cur, ret, lprev, fparg, held, closedPtrs, misuse, h5vars, callvars, trav>>

\* gmx_fio_close: gmx_fio_lock(fio) on freed memory faults
gmx_fio_close_segv(t) ==
    /\ pc[t] = "cl_lock_fio"
    /\ ProcessAlive
    /\ mem[fio[t]] = "free"
    /\ Goto(t, "segv")
    /\ UNCHANGED <<open_files, open_file_mutex, listvars, mtx, hdlvars, locals,
                   held, history>>

\* mpi_fio_open does not get from snew the address a double close is working on
\* (the model follows a double close on memory that is not reallocated under it)
mpi_fio_open_misuse(t, h) ==
    /\ \A s \in Threads : ~(dbl[s] /\ fio[s] = h)
    /\ mpi_fio_open(t, h)

StepMisuse(t) ==
    \/ \E h \in Handles : mpi_fio_open_misuse(t, h)
    \/ gmx_fio_insert_lock_mutex(t)
    \/ gmx_fio_insert_make_dummy(t)
    \/ gmx_fio_insert_lock_fio(t)
    \/ gmx_fio_insert_lock_head(t)
    \/ gmx_fio_insert_read_prev(t)
    \/ gmx_fio_insert_lock_prev(t)
    \/ gmx_fio_insert_set_fio_next(t)
    \/ gmx_fio_insert_set_head_prev(t)
    \/ gmx_fio_insert_set_prev_next(t)
    \/ gmx_fio_insert_set_fio_prev(t)
    \/ gmx_fio_insert_unlock_prev(t)
    \/ gmx_fio_insert_unlock_head(t)
    \/ gmx_fio_insert_unlock_fio(t)
    \/ gmx_fio_insert_unlock_mutex(t)
    \/ gmx_fio_close(t)
    \/ gmx_fio_remove(t)
    \/ gmx_fio_close_locked(t)
    \/ gmx_fio_get_first(t)
    \/ gmx_fio_get_next(t)
    \/ gmx_fio_stop_getting_next(t)
    \/ \E f \in Handles \cup {ForeignFp} : gmx_fio_fclose_call(t, f)
    \/ gmx_fio_loop_done(t)
    \/ gmx_fio_fclose_found(t)
    \/ gmx_fio_loop_visit(t)
    \/ \E h \in Handles : gmx_fio_close_again_call(t, h)
    \/ gmx_fio_close_segv(t)

InitMisuse == InitRegistry /\ InitH5md /\ InitCalls /\ misuse = TRUE

NextMisuse == \E t \in Threads : StepMisuse(t)

\* the registry with callers that may close a handle twice
SpecMisuse == InitMisuse /\ [][NextMisuse]_vars


\* =====================================================================
\*  the H5MD container GmxH5mdIo and its time data blocks
\* =====================================================================

\* ------------------------------------------------------------------ bounds
MaxBlocks == 2        \* entries of dataBlocks_
MaxFrames == 2        \* frames of one data block; steps are below it
MaxRecords == 2       \* records of the provenance data sets
NumParticles == 2     \* first dimension of a frame of the position block

\* std::string::npos, (size_t)-1: npos + 1 wraps around to 0
npos == -1

\* a string is a sequence of tokens, "/" being the separator character.
\* the paths callers hand to writeDataFrame: the absolute paths of
\* writeFrameToStandardDataBlocks and a path without a leading separator
PositionPath == <<"/", "particles", "/", "system", "/", "position">>
LambdaPath == <<"/", "observables", "/", "lambda">>
PathInputs == {LambdaPath, PositionPath, <<"observables", "/", "lambda">>}

Modes == {"r", "w", "a"}

\* the steps callers write, and the time of a step (a time step of 1 ps)
Steps == 0..(MaxFrames - 1)
TimesOf(step) == {step}

\* numberOfFramesPerChunk of writeFrameToStandardDataBlocks: 20 for lambda and for
\* positions; with lossy compression of the positions min(20, ceil(5e6 / numParticles)),
\* which goes down to 1
FramesPerChunkInputs(dataBlockFullName) ==
    IF dataBlockFullName[Len(dataBlockFullName)] = "position" THEN {1, 20} ELSE {20}

\* dataDimensionalityFirstDim of writeFrameToStandardDataBlocks: numParticles for
\* the position block, 1 for lambda
dim1Of(dataBlockFullName) ==
    IF dataBlockFullName[Len(dataBlockFullName)] = "position" THEN NumParticles ELSE 1

\* std::string::find_last_of("/"): the 0-based position of the last separator
find_last_of(q) ==
    IF \E i \in 1..Len(q) : q[i] = "/"
    THEN (CHOOSE i \in 1..Len(q) : q[i] = "/" /\ \A j \in (i + 1)..Len(q) : q[j] # "/") - 1
    ELSE npos

\* std::string::substr(pos, count) for pos <= length; count npos or beyond the
\* end of the string takes the rest of the string
substr(q, pos, count) ==
    IF count = npos \/ pos + count >= Len(q)
    THEN SubSeq(q, pos + 1, Len(q))
    ELSE SubSeq(q, pos + 1, pos + count)

\* groupName and dataBlockName of writeDataFrame
groupNameOf(dataBlockFullName) ==
    substr(dataBlockFullName, 0, find_last_of(dataBlockFullName))

dataBlockNameOf(dataBlockFullName) ==
    substr(dataBlockFullName, find_last_of(dataBlockFullName) + 1, Len(dataBlockFullName))

\* the full HDF5 path of the group `name` inside the group `groupName` of the file:
\* HDF5 names an object by its absolute path from the root group
fullNameOf(groupName, name) ==
    (IF groupName[1] = "/" THEN groupName ELSE <<"/">> \o groupName) \o <<"/">> \o name

\* GmxH5mdTimeDataBlock(container, name, unit, writingInterval, ...): a block
\* without written or read frames
NewDataBlock(groupName, name, writingInterval) ==
    [fullName          |-> fullNameOf(groupName, name),
     writingInterval   |-> writingInterval,
     writingFrameIndex |-> 0,
     readingFrameIndex |-> 0]

\* GmxH5mdTimeDataBlock::operator==(fullSpecifier)
BlockEquals(b, fullSpecifier) == b.fullName = fullSpecifier

\* std::find(dataBlocks_.begin(), dataBlocks_.end(), name): the index of the first
\* equal block, 0 for dataBlocks_.end()
FindBlock(blocks, name) ==
    IF \E i \in 1..Len(blocks) : BlockEquals(blocks[i], name)
    THEN CHOOSE i \in 1..Len(blocks) :
             /\ BlockEquals(blocks[i], name)
             /\ \A j \in 1..(i - 1) : ~BlockEquals(blocks[j], name)
    ELSE 0

\* the file accepts writes: it is open and was opened with mode 'w' or 'a'
Writable == file_ >= 0 /\ filemode_ \in {"w", "a"}

\* an entry of the step and time data sets that was allocated and never written
Fill == [step |-> -1, time |-> 0]

\* GmxH5mdTimeDataBlock::updateNumWrittenFrames on the entries `frames`: the
\* entries up to the last one that is not a fill value
NumWrittenFrames(frames) ==
    IF \E i \in 1..Len(frames) : frames[i] # Fill
    THEN CHOOSE i \in 1..Len(frames) :
             frames[i] # Fill /\ \A j \in (i + 1)..Len(frames) : frames[j] = Fill
    ELSE 0

\* the extent of a chunked data set that holds n entries
Extent(n, chunk) == ((n + chunk - 1) \div chunk) * chunk

\* the entries of a data set after entry frameIndex (0-based) was written: the
\* data set grows by whole chunks, new entries hold the fill value
FramesWith(frames, chunk, frameIndex, entry) ==
    LET extent == IF frameIndex + 1 > Len(frames) THEN Extent(frameIndex + 1, chunk)
                  ELSE Len(frames)
    IN  [i \in 1..extent |-> IF i = frameIndex + 1 THEN entry
                             ELSE IF i <= Len(frames) THEN frames[i] ELSE Fill]

\* the groups of the file after group q got the content g
DiskWith(d, q, g) ==
    [r \in DOMAIN d \cup {q} |-> IF r = q THEN g ELSE d[r]]

\* the order in which H5Literate meets the data-block groups below "particles"
\* and then below "observables"
DiscoveryOrder == <<PositionPath, LambdaPath>>

\* discovery that takes the blocks as constructed, without updateNumWrittenFrames
DiscoveredBlocks_without_update(d) ==
    LET onDisk == SelectSeq(DiscoveryOrder, LAMBDA q : q \in DOMAIN d)
    IN  [i \in 1..Len(onDisk) |->
            NewDataBlock(groupNameOf(onDisk[i]), dataBlockNameOf(onDisk[i]), 0)]

\* initGroupTimeDataBlocksFromFile("particles"), then ("observables"), on a file
\* that holds the groups d: one block per group with step, time and value, built
\* by GmxH5mdTimeDataBlock(locationId, name) and updateNumWrittenFrames
DiscoveredBlocks(d) ==
    LET onDisk == SelectSeq(DiscoveryOrder, LAMBDA q : q \in DOMAIN d)
    IN  [i \in 1..Len(onDisk) |->
            [NewDataBlock(groupNameOf(onDisk[i]), dataBlockNameOf(onDisk[i]), 0)
                EXCEPT !.writingFrameIndex = NumWrittenFrames(d[onDisk[i]].frames)]]

\* std::numeric_limits<int64_t>::max() and std::numeric_limits<real>::max(): here
\* the largest integer of the model checker, which no step or time reaches
INT64_MAX == 2147483647
REAL_MAX == 2147483647

\* GmxH5mdTimeDataBlock::getStepOfFrame(frame), getTimeOfFrame(frame): the entry
\* of the step and of the time data set of the block's group
getStepOfFrame(b, frame) ==
    IF b.fullName \in DOMAIN disk /\ frame >= 0 /\ frame < Len(disk[b.fullName].frames)
    THEN disk[b.fullName].frames[frame + 1].step ELSE -1

getTimeOfFrame(b, frame) ==
    IF b.fullName \in DOMAIN disk /\ frame >= 0 /\ frame < Len(disk[b.fullName].frames)
    THEN disk[b.fullName].frames[frame + 1].time ELSE -1

\* GmxH5mdTimeDataBlock::numberOfFrames()
numberOfFrames(b) == b.writingFrameIndex

\* GmxH5mdTimeDataBlock::getStepOfNextReadingFrame(): the step of the next unread
\* frame, negative when every written frame was read
getStepOfNextReadingFrame(b) ==
    IF b.readingFrameIndex >= b.writingFrameIndex THEN -1
    ELSE getStepOfFrame(b, b.readingFrameIndex)

\* GmxH5mdTimeDataBlock::readFrame(data, frame): whether the frame exists
readFrame(b, frame) == frame < b.writingFrameIndex

\* the frame GmxH5mdTimeDataBlock::writeFrame(data, step, time) writes: deduced
\* from writingInterval_ if set, otherwise the frame after the last written one
FrameIndexOf(b, step) ==
    IF b.writingInterval > 0 THEN step \div b.writingInterval ELSE b.writingFrameIndex

\* the step of the last frame the group q of the file holds, -1 without one
LastStepOnDisk(q) ==
    IF q \in DOMAIN disk /\ NumWrittenFrames(disk[q].frames) > 0
    THEN disk[q].frames[NumWrittenFrames(disk[q].frames)].step ELSE -1

\* the names the getters build for the block dataBlockName of selectionName
wantedNameOf(dataBlockName, selectionName) ==
    <<"/", "particles", "/", selectionName, "/", dataBlockName>>

\* GmxH5mdIo::getNumberOfFrames(dataBlockName, selectionName)
getNumberOfFrames(dataBlockName, selectionName) ==
    LET found == FindBlock(dataBlocks_, wantedNameOf(dataBlockName, selectionName))
    IN  IF found = 0 THEN -1 ELSE numberOfFrames(dataBlocks_[found])

\* GmxH5mdIo::getFirstTime(dataBlockName, selectionName)
getFirstTime(dataBlockName, selectionName) ==
    LET found == FindBlock(dataBlocks_, wantedNameOf(dataBlockName, selectionName))
    IN  IF found = 0 THEN -1 ELSE getTimeOfFrame(dataBlocks_[found], 0)

\* GmxH5mdIo::getFinalTime(dataBlockName, selectionName)
getFinalTime(dataBlockName, selectionName) ==
    LET found == FindBlock(dataBlocks_, wantedNameOf(dataBlockName, selectionName))
    IN  IF found = 0 THEN -1
        ELSE getTimeOfFrame(dataBlocks_[found], numberOfFrames(dataBlocks_[found]) - 1)

\* the loop of GmxH5mdIo::getNextStepAndTimeToRead over blocks[i..], entered with
\* minStepNextFrame and minTime
RECURSIVE NextStepAndTimeLoop(_, _, _, _)
NextStepAndTimeLoop(blocks, i, minStepNextFrame, minTime) ==
    IF i > Len(blocks) THEN <<minStepNextFrame, minTime>>
    ELSE LET frameStep == getStepOfNextReadingFrame(blocks[i])
         IN  IF frameStep >= 0 /\ frameStep < minStepNextFrame
             THEN NextStepAndTimeLoop(blocks, i + 1, frameStep,
                                      getTimeOfFrame(blocks[i], blocks[i].readingFrameIndex))
             ELSE NextStepAndTimeLoop(blocks, i + 1, minStepNextFrame, minTime)

\* a scan that leaves out the first block of the list
getNextStepAndTimeToRead_skips_first == NextStepAndTimeLoop(dataBlocks_, 2, INT64_MAX, REAL_MAX)

\* GmxH5mdIo::getNextStepAndTimeToRead()
getNextStepAndTimeToRead == NextStepAndTimeLoop(dataBlocks_, 1, INT64_MAX, REAL_MAX)

\* writeData<1, false>(dataSet, data, frameIndex) on a data set p with chunks of
\* one entry: the data set grows to hold the entry, the other entries stay
writeData(p, data, frameIndex) ==
    LET extent == IF frameIndex + 1 > Len(p) THEN frameIndex + 1 ELSE Len(p)
    IN  [i \in 1..extent |-> IF i = frameIndex + 1 THEN data ELSE p[i]]

\* a provenance write that takes the last existing entry as its target
addToProvenanceRecord_at_last(p, record) ==
    LET numFrames == IF p = <<>> THEN 0 ELSE Len(p) - 1
    IN  writeData(p, record, numFrames)

\* GmxH5mdIo::addToProvenanceRecord() on the provenance data sets p: the record is
\* written at entry numFrames, 0 when the command_line data set is created and
\* its extent otherwise. A record is the ordinal of the call that wrote it
addToProvenanceRecord(p, record) ==
    LET numFrames == IF p = <<>> THEN 0 ELSE Len(p)
    IN  writeData(p, record, numFrames)

\* whether flush() of this container calls addToProvenanceRecord
FlushRecords == file_ >= 0 /\ filemode_ \in {"w", "a"}

\* the provenance records after flush()
flushedProvenance ==
    IF FlushRecords THEN addToProvenanceRecord(provenance, numFlushes + 1) ELSE provenance

flushedCount == IF FlushRecords THEN numFlushes + 1 ELSE numFlushes

\* GmxH5mdIo::flush()
flush ==
    /\ FlushRecords => Len(provenance) < MaxRecords
    /\ provenance' = flushedProvenance
    /\ numFlushes' = flushedCount
    /\ h5err' = "none"
    /\ UNCHANGED <<file_, filemode_, dataBlocks_, fileExists, disk, properties, regvars, callvars>>

\* a close that flushes without looking at file_
closeFile_flushes_closed ==
    /\ filemode_ \in {"w", "a"} => Len(provenance) < MaxRecords
    /\ provenance' = IF filemode_ \in {"w", "a"}
                     THEN addToProvenanceRecord(provenance, numFlushes + 1) ELSE provenance
    /\ numFlushes' = IF filemode_ \in {"w", "a"} THEN numFlushes + 1 ELSE numFlushes
    /\ file_' = -1
    /\ h5err' = "none"
    /\ UNCHANGED <<filemode_, dataBlocks_, fileExists, disk, properties, regvars, callvars>>

\* GmxH5mdIo::closeFile(), also run by the destructor: flush, close the data
\* sets, release the file; nothing to do when no file is open
closeFile ==
    /\ FlushRecords => Len(provenance) < MaxRecords
    /\ provenance' = flushedProvenance
    /\ numFlushes' = flushedCount
    /\ file_' = -1
    /\ h5err' = "none"
    /\ UNCHANGED <<filemode_, dataBlocks_, fileExists, disk, properties, regvars, callvars>>

\* an open that discovers the blocks without emptying dataBlocks_ first
openFile_keeps_blocks(mode) ==
    LET truncate == mode \in {"w", "a"} /\ (~fileExists \/ mode = "w")
        opened   == mode \in {"w", "a"} \/ fileExists
        onDisk   == IF truncate THEN <<>> ELSE disk
    IN  /\ FlushRecords => Len(provenance) < MaxRecords
        /\ provenance' = IF truncate THEN <<>> ELSE flushedProvenance
        /\ numFlushes' = IF truncate THEN 0 ELSE flushedCount
        /\ fileExists' = (fileExists \/ truncate)
        /\ disk' = onDisk
        /\ file_' = IF opened THEN 1 ELSE -1
        /\ filemode_' = mode
        /\ dataBlocks_' = IF opened THEN dataBlocks_ \o DiscoveredBlocks(onDisk) ELSE dataBlocks_
        /\ h5err' = IF opened THEN "none" ELSE "Cannot open H5MD file."
        /\ properties' = IF truncate THEN <<>> ELSE properties
        /\ UNCHANGED <<regvars, callvars>>

\* GmxH5mdIo::openFile(fileName, mode): closeFile, dataBlocks_.clear(), create or
\* open the file, then discover its blocks
openFile(mode) ==
    LET truncate == mode \in {"w", "a"} /\ (~fileExists \/ mode = "w")
        opened   == mode \in {"w", "a"} \/ fileExists
        onDisk   == IF truncate THEN <<>> ELSE disk
    IN  /\ FlushRecords => Len(provenance) < MaxRecords
        /\ provenance' = IF truncate THEN <<>> ELSE flushedProvenance
        /\ numFlushes' = IF truncate THEN 0 ELSE flushedCount
        /\ fileExists' = (fileExists \/ truncate)
        /\ disk' = onDisk
        /\ file_' = IF opened THEN 1 ELSE -1
        /\ filemode_' = mode
        /\ dataBlocks_' = IF opened THEN DiscoveredBlocks(onDisk) ELSE <<>>
        /\ h5err' = IF opened THEN "none" ELSE "Cannot open H5MD file."
        /\ properties' = IF truncate THEN <<>> ELSE properties
        /\ UNCHANGED <<regvars, callvars>>

\* a writeFrame that sets writingFrameIndex to the slot after the written one
writeFrameAt_sets_index(blocks, d, i, step, time, frame) ==
    LET b == blocks[i]
        g == d[b.fullName]
    IN  /\ dataBlocks_' = [blocks EXCEPT ![i].writingFrameIndex = frame + 1]
        /\ disk' = DiskWith(d, b.fullName,
                            [g EXCEPT !.frames = FramesWith(g.frames, g.chunk, frame,
                                                            [step |-> step, time |-> time])])
        /\ h5err' = "none"

\* GmxH5mdTimeDataBlock::writeFrame(data, step, time, frame) on block i of blocks,
\* the file holding the groups d: the frame goes to slot frame, the data sets
\* grow if needed, and writingFrameIndex advances to the slot after it if that is
\* greater
writeFrameAt(blocks, d, i, step, time, frame) ==
    LET b == blocks[i]
        g == d[b.fullName]
    IN  /\ dataBlocks_' =
               [blocks EXCEPT ![i].writingFrameIndex = IF frame + 1 > @ THEN frame + 1 ELSE @]
        /\ disk' = DiskWith(d, b.fullName,
                            [g EXCEPT !.frames = FramesWith(g.frames, g.chunk, frame,
                                                            [step |-> step, time |-> time])])
        /\ h5err' = "none"

\* GmxH5mdTimeDataBlock::writeFrame(data, step, time) on block i of blocks: the
\* frame goes to slot FrameIndexOf
writeFrame(blocks, d, i, step, time) ==
    writeFrameAt(blocks, d, i, step, time, FrameIndexOf(blocks[i], step))

\* GmxH5mdIo::writeDataFrame(step, time, dataBlockFullName, dataDimensionalityFirstDim,
\* dataDimensionalitySecondDim, data, unit, numberOfFramesPerChunk, ...). The
\* constructor call hands numberOfFramesPerChunk to the fourth parameter
\* (writingInterval) and dataDimensionalityFirstDim to the fifth (numFramesPerChunk)
writeDataFrame(step, time, dataBlockFullName, dataDimensionalityFirstDim, numberOfFramesPerChunk) ==
    LET found == FindBlock(dataBlocks_, dataBlockFullName)
        dataBlock == NewDataBlock(groupNameOf(dataBlockFullName),
                                  dataBlockNameOf(dataBlockFullName),
                                  numberOfFramesPerChunk)
        created == Append(dataBlocks_, dataBlock)
        foundAgain == FindBlock(created, dataBlockFullName)
        withGroup == IF dataBlock.fullName \in DOMAIN disk THEN disk
                     ELSE DiskWith(disk, dataBlock.fullName,
                                   [chunk |-> dataDimensionalityFirstDim, frames |-> <<>>])
        target == IF found # 0 THEN dataBlocks_[found] ELSE dataBlock
    IN  \* callers write a block at every step: 0, 1, 2, ... since the file was created
        /\ step = LastStepOnDisk(target.fullName) + 1
        /\ FrameIndexOf(target, step) < MaxFrames
        /\ IF ~Writable
           THEN \* openOrCreateGroup or the write to the data sets fails
                /\ h5err' = "storage error"
                /\ UNCHANGED <<dataBlocks_, disk>>
           ELSE IF found # 0
           THEN writeFrame(dataBlocks_, disk, found, step, time)
           ELSE /\ Len(dataBlocks_) < MaxBlocks
                /\ IF foundAgain = 0
                   THEN /\ dataBlocks_' = created
                        /\ disk' = withGroup
                        /\ h5err' = "Error creating data block when writing frame."
                   ELSE writeFrame(created, withGroup, foundAgain, step, time)
        /\ UNCHANGED <<file_, filemode_, fileExists, provenance, numFlushes, properties, regvars, callvars>>

\* the loop of GmxH5mdIo::readNextFrameOfDataBlock: the index of the first block
\* whose fullName() is dataBlockFullName, 0 when the loop ends without one
FirstBlockNamed(blocks, dataBlockFullName) ==
    IF \E i \in 1..Len(blocks) : blocks[i].fullName = dataBlockFullName
    THEN CHOOSE i \in 1..Len(blocks) :
             /\ blocks[i].fullName = dataBlockFullName
             /\ \A j \in 1..(i - 1) : blocks[j].fullName # dataBlockFullName
    ELSE 0

\* a read that ignores the step filter
readNextFrameOfDataBlockReturns_unfiltered(dataBlockFullName, stepToRead) ==
    LET i == FirstBlockNamed(dataBlocks_, dataBlockFullName)
    IN  /\ i # 0
        /\ readFrame(dataBlocks_[i], dataBlocks_[i].readingFrameIndex)

\* what GmxH5mdIo::readNextFrameOfDataBlock(dataBlockFullName, data, stepToRead)
\* returns: false without a block of that name or when the step filter rejects,
\* otherwise what readNextFrame returns
readNextFrameOfDataBlockReturns(dataBlockFullName, stepToRead) ==
    LET i == FirstBlockNamed(dataBlocks_, dataBlockFullName)
    IN  /\ i # 0
        /\ stepToRead < 0 \/ getStepOfNextReadingFrame(dataBlocks_[i]) = stepToRead
        /\ readFrame(dataBlocks_[i], dataBlocks_[i].readingFrameIndex)

\* GmxH5mdIo::readNextFrameOfDataBlock(dataBlockFullName, data, stepToRead) on an
\* open file; readNextFrame is readFrame(data, readingFrameIndex_) and advances
\* readingFrameIndex_ when that succeeds
readNextFrameOfDataBlock(dataBlockFullName, stepToRead) ==
    LET i == FirstBlockNamed(dataBlocks_, dataBlockFullName)
    IN  /\ file_ >= 0
        /\ dataBlocks_' = IF readNextFrameOfDataBlockReturns(dataBlockFullName, stepToRead)
                          THEN [dataBlocks_ EXCEPT ![i].readingFrameIndex = @ + 1]
                          ELSE dataBlocks_
        /\ h5err' = "none"
        /\ UNCHANGED <<file_, filemode_, fileExists, disk, provenance, numFlushes, properties, regvars, callvars>>

NextH5md ==
    \/ \E mode \in Modes : openFile(mode)
    \/ closeFile
    \/ flush
    \/ \E q \in PathInputs, step \in Steps :
           \E time \in TimesOf(step), n \in FramesPerChunkInputs(q) :
               writeDataFrame(step, time, q, dim1Of(q), n)
    \/ \E q \in PathInputs, stepToRead \in {-1} \cup Steps : readNextFrameOfDataBlock(q, stepToRead)

\* one GmxH5mdIo instance used by one caller
SpecH5md == Init /\ [][NextH5md]_vars


\* =====================================================================
\*  properties of the registry
\* =====================================================================

Range(q) == {q[i] : i \in 1..Len(q)}

\* the nodes met by following next from n until the dummy head comes up again;
\* a NULL entry marks a walk that meets a null pointer or does not come back
\* within k steps
RECURSIVE Walk(_, _)
Walk(n, k) ==
    IF n = Dummy THEN <<>>
    ELSE IF n = NULL \/ k = 0 THEN <<NULL>>
    ELSE <<n>> \o Walk(next[n], k - 1)

\* the handles in the registry, in list order
OpenList == IF open_files = NULL THEN <<>> ELSE Walk(next[open_files], MaxHandles + 1)

Quiescent == \A t \in Threads : pc[t] = "idle"

\* following next from the dummy head visits exactly the handles in hs, each once,
\* and returns to the head; prev is the inverse of next on these nodes
ValidCircularList(hs) ==
    /\ NULL \notin Range(OpenList)
    /\ Range(OpenList) = hs
    /\ Len(OpenList) = Cardinality(hs)
    /\ open_files # NULL =>
           \A n \in {Dummy} \cup hs : prev[next[n]] = n /\ next[prev[n]] = n

\* C1: once all calls have returned, the registry is a valid circular doubly linked
\* list that holds exactly the handles opened and not yet closed, each once
C1_RegistryIntegrity == Quiescent => ValidCircularList(live)

\* a quiescent state after interleaved opens and closes, with two handles in the
\* list in the order 2, 1
C1_Witness == Quiescent /\ OpenList = <<2, 1>> /\ live = {1, 2}

\* the lock a thread is about to acquire, and its owner
WantsMutex(t) == pc[t] \in {"ins_lock_mutex", "cl_lock_mutex", "gf_lock_mutex"}

WantsNode(t) ==
    CASE pc[t] = "ins_lock_fio"  -> fio[t]
      [] pc[t] = "ins_lock_head" -> open_files
      [] pc[t] = "ins_lock_prev" -> lprev[t]
      [] pc[t] = "cl_lock_fio"   -> fio[t]
      [] pc[t] = "rm_lock_prev"  -> prev[Target(t)]
      [] pc[t] = "rm_lock_next"  -> next[Target(t)]
      [] pc[t] = "gf_lock_head"  -> open_files
      [] pc[t] = "gf_lock_first" -> next[open_files]
      [] pc[t] = "gn_lock_next"  -> ret[t]
      [] pc[t] = "ph_lock"       -> fio[t]
      [] OTHER -> NULL

\* the thread that holds the lock t is about to acquire (NoThread: t is not waiting)
WaitsFor(t) ==
    IF WantsMutex(t) THEN open_file_mutex
    ELSE IF WantsNode(t) # NULL THEN mtx[WantsNode(t)]
    ELSE NoThread

\* t is inside a call and is not waiting, or waits for a thread that is inside a
\* call and can itself go on (chains of at most k waiting threads)
RECURSIVE CanGoOn(_, _)
CanGoOn(t, k) ==
    /\ pc[t] # "idle"
    /\ \/ WaitsFor(t) = NoThread
       \/ k > 0 /\ WaitsFor(t) # t /\ CanGoOn(WaitsFor(t), k - 1)

\* C3: a second gmx_fio_close on a handle ends in the fatal "closed twice" path:
\* the closing thread never gets past the bOpen check towards a successful return
\* and never waits for a lock that it holds itself
C3_DoubleCloseIsFatal ==
    \A t \in Threads :
        dbl[t] => /\ pc[t] \notin {"cl_unlock_fio", "cl_free", "cl_unlock_mutex"}
                  /\ WaitsFor(t) # t

\* C4: no thread inside a call waits for a lock that is never released: every
\* waiting thread waits for a thread that is itself inside a call and can go on
C4_NoThreadWaitsForever ==
    \A t \in Threads : pc[t] # "idle" => CanGoOn(t, NumThreads)

\* C5: a thread that has returned from any function of the registry, traversals
\* included, holds neither open_file_mutex nor a handle lock
C5_TraversalReleasesLocks ==
    \A t \in Threads : pc[t] = "idle" => open_file_mutex # t /\ held[t] = <<>>

\* C6 as claimed: at most one thread has got the result of gmx_fio_get_first and
\* has not ended its traversal (gmx_fio_get_next returned NULL, or
\* gmx_fio_stop_getting_next returned)
C6_OneTraversalAsClaimed == Cardinality(trav) <= 1

\* t is in its last gmx_fio_get_next, after the tMPI_Thread_mutex_unlock and
\* before the gmx_fio_unlock of the last handle
LeavingTraversal(t) == pc[t] = "gn_unlock_fio" /\ ret[t] = NULL

\* C6 amended: at most one thread is between the return of gmx_fio_get_first and
\* the point where its traversal gives up open_file_mutex; a thread that is still
\* in its last gmx_fio_get_next, with the mutex released and the last handle
\* locked, can overlap with the next traversal
C6_OneTraversal == Cardinality({t \in trav : ~LeavingTraversal(t)}) <= 1

\* one thread is inside a traversal while another one has called a traversing
\* function and waits for open_file_mutex
C6_Witness ==
    \E t, s \in Threads :
        /\ t \in trav /\ cur[t] # NULL /\ ~LeavingTraversal(t)
        /\ s # t /\ pc[s] = "gf_lock_mutex"

\* the positions of gmx_fio_close after gmx_fio_lock(fio): gmx_fio_remove,
\* gmx_fio_close_locked, the unlock and sfree
ClosePastLock ==
    {"rm_lock_prev", "rm_set_prev_next", "rm_unlock_prev", "rm_lock_next",
     "rm_set_next_prev", "rm_unlock_next", "rm_self", "cll_check",
     "cl_unlock_fio", "cl_free", "cl_unlock_mutex"}

\* t holds h as the current node of its traversal
Visits(t, h) == t \in trav /\ cur[t] = h /\ pc[t] # "idle"

\* C7: while a traversing thread holds h as its current node, no other thread is
\* in the remove or free steps of a close of h
C7_VisitedNotClosed ==
    \A t, s \in Threads : \A h \in Handles :
        (t # s /\ Visits(t, h)) => ~(Target(s) = h /\ pc[s] \in ClosePastLock)

\* a traversal holds h as its current node while another thread has called
\* gmx_fio_close(h) and waits
C7_Witness ==
    \E t, s \in Threads : \E h \in Handles :
        /\ t # s /\ Visits(t, h) /\ mtx[h] = t
        /\ op[s] = "close" /\ fio[s] = h /\ pc[s] = "cl_lock_mutex"

\* positions at which the next step of the thread reads a next or prev pointer
ReadsLinks ==
    {"ins_read_prev", "gf_read_next", "gf_lock_first", "gn_read_next",
     "rm_lock_prev", "rm_set_prev_next", "rm_unlock_prev", "rm_lock_next",
     "rm_set_next_prev", "rm_unlock_next"}

\* positions inside a splice: one pointer is written, another one is still to be
HalfSpliced ==
    {"ins_set_head_prev", "ins_set_prev_next", "ins_set_fio_prev",
     "rm_unlock_prev", "rm_lock_next", "rm_set_next_prev"}

\* C8: an inserted handle whose close has not started is reachable from the dummy
\* head by next in every state, and no thread reads a next or prev pointer while
\* another thread is inside a splice
C8_InsertedReachable ==
    /\ live \subseteq Range(OpenList)
    /\ \A t, s \in Threads :
           (t # s /\ pc[s] \in HalfSpliced) => pc[t] \notin ReadsLinks

\* a splice is half done next to a live handle while another thread waits to
\* start a traversal
C8_Witness ==
    \E t, s \in Threads :
        /\ t # s /\ pc[s] \in HalfSpliced /\ live # {}
        /\ pc[t] = "gf_lock_mutex"

InsertWrites == {"ins_set_fio_next", "ins_set_head_prev", "ins_set_prev_next",
                 "ins_set_fio_prev"}
RemoveWrites == {"rm_set_prev_next", "rm_set_next_prev", "rm_self"}

\* the locks "target, then sentinel, then predecessor" for target n with
\* predecessor p (the sentinel once when it is the predecessor)
TargetHeadPred(n, p) == IF p = Dummy THEN <<n, Dummy>> ELSE <<n, Dummy, p>>

\* C9 as claimed: at every pointer update of gmx_fio_insert and of gmx_fio_remove
\* the thread holds open_file_mutex and the locks of target, sentinel and
\* predecessor, acquired in that order
C9_SpliceLocksAsClaimed ==
    \A t \in Threads :
        /\ pc[t] \in InsertWrites =>
               /\ open_file_mutex = t
               /\ held[t] = TargetHeadPred(fio[t], lprev[t])
        /\ pc[t] \in {"rm_set_prev_next", "rm_set_next_prev"} =>
               /\ open_file_mutex = t
               /\ held[t] = TargetHeadPred(Target(t), prev[Target(t)])

\* C9 amended: gmx_fio_insert holds open_file_mutex and the locks of target,
\* sentinel and predecessor (in this order) during its four pointer updates and
\* releases them in reverse order; gmx_fio_remove runs under open_file_mutex with
\* the target locked by its caller and holds, besides it, only the predecessor's
\* lock while it writes the predecessor's next and only the successor's lock while
\* it writes the successor's prev
C9_SpliceLocks ==
    \A t \in Threads :
        /\ pc[t] \in InsertWrites \cup {"ins_unlock_prev"} =>
               /\ open_file_mutex = t
               /\ held[t] = TargetHeadPred(fio[t], lprev[t])
        /\ pc[t] = "ins_unlock_head" =>
               open_file_mutex = t /\ held[t] = <<fio[t], Dummy>>
        /\ pc[t] = "ins_unlock_fio" =>
               open_file_mutex = t /\ held[t] = <<fio[t]>>
        /\ pc[t] = "ins_unlock_mutex" =>
               open_file_mutex = t /\ held[t] = <<>>
        /\ pc[t] = "rm_set_prev_next" =>
               open_file_mutex = t /\ held[t] = <<Target(t), prev[Target(t)]>>
        /\ pc[t] = "rm_set_next_prev" =>
               open_file_mutex = t /\ held[t] = <<Target(t), next[Target(t)]>>
        /\ pc[t] \in {"rm_lock_prev", "rm_lock_next", "rm_self"} =>
               open_file_mutex = t /\ held[t] = <<Target(t)>>

\* gmx_fio_remove writes the next pointer of a predecessor that is a handle, not
\* the sentinel
C9_Witness ==
    \E t \in Threads :
        pc[t] = "rm_set_prev_next" /\ prev[Target(t)] # Dummy

\* C10: a per-handle function acquires and releases only the lock of its own
\* handle and never open_file_mutex, holds no other handle lock, and its lock step
\* is enabled whenever its handle's lock is free, whoever holds open_file_mutex or
\* other handles' locks
C10_PerHandleState ==
    \A t \in Threads :
        op[t] = "perhandle" =>
            /\ Range(held[t]) \subseteq {fio[t]}
            /\ pc[t] = "ph_io" => mtx[fio[t]] = t
            /\ (pc[t] = "ph_lock" /\ mtx[fio[t]] = NoThread) =>
                   ENABLED gmx_fio_perhandle_lock(t)

C10_PerHandleStep ==
    \A t \in Threads :
        (op[t] = "perhandle" /\ pc'[t] # pc[t]) =>
            /\ open_file_mutex' = open_file_mutex
            /\ \A n \in Nodes \ {fio[t]} : mtx'[n] = mtx[n]
            /\ pc'[t] = "idle" => held'[t] = <<>> /\ mtx'[fio[t]] = NoThread

\* C10: in every state and at every step of a per-handle function, the function
\* works with the lock of its own handle only and is never kept waiting by
\* open_file_mutex or by the lock of another handle
C10_PerHandleOwnLockOnly == [](C10_PerHandleState) /\ [][C10_PerHandleStep]_vars

\* a per-handle function is inside its I/O on handle A while another thread holds
\* open_file_mutex and the lock of another handle B
C10_Witness ==
    \E t, s \in Threads : \E b \in Handles :
        /\ t # s /\ pc[t] = "ph_io"
        /\ open_file_mutex = s /\ b # fio[t] /\ mtx[b] = s

\* positions inside gmx_fio_get_first after its tMPI_Thread_mutex_lock
InGetFirst == {"gf_make_dummy", "gf_lock_head", "gf_read_next", "gf_lock_first",
               "gf_unlock_head"}

C12_DummyState ==
    \A t \in Threads :
        pc[t] \in {"ins_make_dummy", "gf_make_dummy"} => open_file_mutex = t

\* once the dummy head exists open_files does not change; it is made self-linked;
\* and its next and prev are written afterwards only by the pointer updates of
\* gmx_fio_insert and gmx_fio_remove
C12_DummyStep ==
    /\ open_files # NULL => open_files' = open_files
    /\ (open_files = NULL /\ open_files' # NULL) =>
           next'[open_files'] = open_files' /\ prev'[open_files'] = open_files'
    /\ (open_files # NULL /\ (next'[Dummy] # next[Dummy] \/ prev'[Dummy] # prev[Dummy])) =>
           \E t \in Threads : pc[t] \in InsertWrites \cup RemoveWrites /\ pc'[t] # pc[t]

\* C12: the dummy head is made at most once, under open_file_mutex: after the
\* first gmx_fio_make_dummy open_files never changes, the head starts self-linked
\* and only gmx_fio_insert and gmx_fio_remove change its links
C12_DummyMadeOnce == [](C12_DummyState) /\ [][C12_DummyStep]_vars

\* a second first-time caller is about to run gmx_fio_make_dummy and finds the
\* dummy head made by another caller, with handles already in the list
C12_Witness ==
    \E t \in Threads :
        /\ pc[t] \in {"ins_make_dummy", "gf_make_dummy"}
        /\ open_files # NULL /\ next[Dummy] # Dummy


\* =====================================================================
\*  properties of the H5MD container
\* =====================================================================

\* C2: dataBlocks_ never holds two blocks with the same full path
C2_OneBlockPerPath ==
    \A i, j \in 1..Len(dataBlocks_) :
        i # j => dataBlocks_[i].fullName # dataBlocks_[j].fullName

\* the inputs of the writeDataFrame calls of NextH5md
WriteInputs ==
    {<<step, time, q, n>> \in Steps \X Steps \X PathInputs \X {1, 20} :
        time \in TimesOf(step) /\ n \in FramesPerChunkInputs(q)}

\* the writeDataFrame call with the inputs w stored a frame
Wrote(w) == writeDataFrame(w[1], w[2], w[3], dim1Of(w[3]), w[4]) /\ h5err' = "none"

\* numberOfFrames() of the block the call with path q writes to, before the call
FramesBefore(q) ==
    IF FindBlock(dataBlocks_, q) # 0
    THEN numberOfFrames(dataBlocks_[FindBlock(dataBlocks_, q)]) ELSE 0

C13_WriteStep ==
    \A w \in WriteInputs :
        Wrote(w) =>
            LET b == dataBlocks_'[FindBlock(dataBlocks_', w[3])]
                N == FramesBefore(w[3])
                stored == disk'[b.fullName].frames
            IN  /\ numberOfFrames(b) = N + 1
                /\ Len(stored) >= N + 1
                /\ stored[N + 1] = [step |-> w[1], time |-> w[2]]
                /\ \A i \in 1..N : stored[i] = disk[b.fullName].frames[i]

PositionFramesWritten == LastStepOnDisk(PositionPath) + 1

PathsAndFrames(blocks) ==
    {<<blocks[i].fullName, blocks[i].writingFrameIndex>> : i \in 1..Len(blocks)}

\* every block of the container had frames written
Populated ==
    /\ dataBlocks_ # <<>>
    /\ \A i \in 1..Len(dataBlocks_) : dataBlocks_[i].writingFrameIndex >= 1

C15_ReopenStep ==
    (openFile("a") /\ fileExists /\ Populated) =>
        PathsAndFrames(dataBlocks_') = PathsAndFrames(dataBlocks_)

\* C15: closing a populated archive and opening it in append mode rebuilds
\* dataBlocks_ with the same full paths and the same writingFrameIndex per block,
\* also when the data sets extend beyond the written frames
C15_DiscoveryRoundTrip == [][C15_ReopenStep]_vars

\* an archive reopened in append mode with two discovered blocks that hold
\* frames, one of them with fill-value frames after the written ones
C15_Witness ==
    /\ file_ >= 0 /\ filemode_ = "a" /\ Populated
    /\ Len(dataBlocks_) = 2
    /\ \A i \in 1..Len(dataBlocks_) : dataBlocks_[i].writingInterval = 0
    /\ \E i \in 1..Len(dataBlocks_) :
           Len(disk[dataBlocks_[i].fullName].frames) > dataBlocks_[i].writingFrameIndex

\* the blocks of the container that still have an unread frame
Unread == {i \in 1..Len(dataBlocks_) :
              dataBlocks_[i].readingFrameIndex < dataBlocks_[i].writingFrameIndex}

\* step and time of the next unread frame of block i
NextUnreadStep(i) == getStepOfFrame(dataBlocks_[i], dataBlocks_[i].readingFrameIndex)
NextUnreadTime(i) == getTimeOfFrame(dataBlocks_[i], dataBlocks_[i].readingFrameIndex)

\* C16: on an open archive getNextStepAndTimeToRead returns the smallest step of
\* the next unread frames of the blocks that still have one, with the time of a
\* block whose next unread frame has that step (the initial maxima when no block
\* has an unread frame)
C16_NextStepIsMinimum ==
    file_ >= 0 =>
        IF Unread = {} THEN getNextStepAndTimeToRead = <<INT64_MAX, REAL_MAX>>
        ELSE /\ \A i \in Unread : getNextStepAndTimeToRead[1] <= NextUnreadStep(i)
             /\ \E i \in Unread : /\ getNextStepAndTimeToRead[1] = NextUnreadStep(i)
                                   /\ getNextStepAndTimeToRead[2] = NextUnreadTime(i)

\* two blocks that both hold the steps 0 and 1 and both had their step-0 frame
\* read: the next step to read is 1
C16_Witness ==
    /\ file_ >= 0 /\ Len(dataBlocks_) = 2
    /\ dataBlocks_[1].fullName # dataBlocks_[2].fullName
    /\ \A i \in 1..2 : /\ dataBlocks_[i].writingFrameIndex = 2
                       /\ dataBlocks_[i].readingFrameIndex = 1
                       /\ getStepOfFrame(dataBlocks_[i], 0) = 0
                       /\ getStepOfFrame(dataBlocks_[i], 1) = 1
    /\ getNextStepAndTimeToRead = <<1, 1>>

\* the inputs of the readNextFrameOfDataBlock calls of NextH5md
ReadInputs == PathInputs \X ({-1} \cup Steps)

\* the blocks whose full path is q
Named(q) == {i \in 1..Len(dataBlocks_) : dataBlocks_[i].fullName = q}

\* the first block with full path q, for Named(q) # {}
FirstNamed(q) == CHOOSE i \in Named(q) : \A j \in Named(q) : i <= j

\* the blocks whose readingFrameIndex the step changes
CursorsMoved ==
    {i \in 1..Len(dataBlocks_) :
        dataBlocks_'[i].readingFrameIndex # dataBlocks_[i].readingFrameIndex}

C17_ReadStep ==
    \A r \in ReadInputs :
        readNextFrameOfDataBlock(r[1], r[2]) =>
            LET q == r[1]
                stepToRead == r[2]
                returns == readNextFrameOfDataBlockReturns(q, stepToRead)
            IN  /\ Len(dataBlocks_') = Len(dataBlocks_)
                /\ Named(q) = {} => ~returns /\ CursorsMoved = {}
                /\ (Named(q) # {} /\ stepToRead >= 0
                       /\ (FirstNamed(q) \notin Unread \/ NextUnreadStep(FirstNamed(q)) # stepToRead))
                      => ~returns /\ CursorsMoved = {}
                /\ (Named(q) # {} /\ stepToRead < 0)
                      => returns = (FirstNamed(q) \in Unread)
                /\ CursorsMoved = IF returns THEN {FirstNamed(q)} ELSE {}
                /\ returns => dataBlocks_'[FirstNamed(q)].readingFrameIndex
                                  = dataBlocks_[FirstNamed(q)].readingFrameIndex + 1

\* C17: readNextFrameOfDataBlock returns false and moves no cursor when no block
\* has the path or when a non-negative stepToRead differs from the step of the
\* block's next unread frame; with a negative stepToRead it reads the block's
\* next frame whenever there is one; only the cursor of the block with the path
\* moves, by one frame
C17_ReadFiltered == [][C17_ReadStep]_vars

\* a block that was read once and whose next unread frame the filter of step 0
\* rejects, beside a block with unread frames whose cursor did not move
C17_Witness ==
    /\ file_ >= 0 /\ Len(dataBlocks_) = 2
    /\ \E i, j \in 1..2 :
           /\ dataBlocks_[i].fullName # dataBlocks_[j].fullName
           /\ dataBlocks_[i].readingFrameIndex = 1 /\ i \in Unread
           /\ ~readNextFrameOfDataBlockReturns(dataBlocks_[i].fullName, 0)
           /\ readNextFrameOfDataBlockReturns(dataBlocks_[i].fullName, -1)
           /\ dataBlocks_[j].readingFrameIndex = 0 /\ j \in Unread

C18_CloseStep ==
    closeFile =>
        /\ file_' = -1
        /\ h5err' = "none"
        /\ UNCHANGED <<dataBlocks_, disk, fileExists, filemode_>>
        /\ file_ >= 0 => provenance' = flushedProvenance
        /\ file_ < 0 => UNCHANGED <<provenance, numFlushes>>

C19_RecordsInOrder ==
    /\ Len(provenance) = numFlushes
    /\ \A i \in 1..Len(provenance) : provenance[i] = i

C19_FlushStep ==
    (flush \/ closeFile) =>
        IF file_ >= 0 /\ filemode_ \in {"w", "a"}
        THEN /\ Len(provenance') = Len(provenance) + 1
             /\ \A i \in 1..Len(provenance) : provenance'[i] = provenance[i]
        ELSE provenance' = provenance

\* C19: in write or append mode every flush, and every closeFile of an open
\* container, appends one provenance record after the existing ones and leaves
\* these as they are, so k flushes on a new archive give k records in call
\* order; in read mode flush appends none
C19_ProvenanceAppended == [](C19_RecordsInOrder) /\ [][C19_FlushStep]_vars

\* an archive that is open for writing after two provenance writes
C19_Witness ==
    /\ file_ >= 0 /\ filemode_ \in {"w", "a"}
    /\ numFlushes = 2 /\ provenance = <<1, 2>>

\* the groups of the file d below "particles" and "observables" that hold a data
\* block
StandardGroups(d) == {q \in DOMAIN d : q[2] \in {"particles", "observables"}}

C20_OpenStep ==
    \A mode \in Modes :
        openFile(mode) =>
            /\ file_ >= 0 /\ filemode_ \in {"w", "a"} /\ mode # "w"
                  => provenance' = Append(provenance, numFlushes + 1)
            /\ IF file_' < 0 THEN dataBlocks_' = <<>>
               ELSE /\ Len(dataBlocks_') = Cardinality(StandardGroups(disk'))
                    /\ {dataBlocks_'[i].fullName : i \in 1..Len(dataBlocks_')}
                           = StandardGroups(disk')
                    /\ \A i \in 1..Len(dataBlocks_') :
                           /\ dataBlocks_'[i].readingFrameIndex = 0
                           /\ dataBlocks_'[i].writingInterval = 0
                           /\ dataBlocks_'[i].writingFrameIndex
                                  = NumWrittenFrames(disk'[dataBlocks_'[i].fullName].frames)

NUL == "\\0"
Uninit == "?"

\* mode strings callers pass, character by character; every one of them and the
\* "b" that may be added fit into char newmode[5]
ModeInputs ==
    { <<>>, <<"r">>, <<"r", "+">>, <<"r", "b">>, <<"w">>, <<"w", "+">>, <<"w", "b">>,
      <<"a">>, <<"a", "+">>, <<"+", "r">>, <<"x">>, <<"b", "+">> }

\* the mode strings of a program that opens its files with "r" or "w"
PlainModes == { <<"r">>, <<"w">> }

\* what fn2ftp(fn) and ftp2ftype(fn2ftp(fn)) answer for the file names callers pass:
\* a type, and whether its description starts with "ASCII"
FileTypeInputs ==
    { [ftp |-> "efTPA", ascii |-> TRUE],  [ftp |-> "efLOG", ascii |-> TRUE],
      [ftp |-> "efXTC", ascii |-> FALSE], [ftp |-> "efCPT", ascii |-> FALSE],
      [ftp |-> "efNR",  ascii |-> FALSE] }

\* the file types of a program with log files, checkpoint files and debug files
FewFileTypes == { ft \in FileTypeInputs : ft.ftp \in {"efLOG", "efCPT", "efNR"} }

\* the six mode strings mpi_fio_open sanitizes to
SaneModes == { <<"r", "+">>, <<"r">>, <<"w", "+">>, <<"w">>, <<"a", "+">>, <<"a">> }

\* s[i] of a C string held in a buffer that was filled by strcpy
CharAt(s, i) == IF i < Len(s) THEN s[i + 1] ELSE IF i = Len(s) THEN NUL ELSE Uninit

\* strncmp(mode, lit, 2) == 0 for a literal of two characters
strncmp2(mode, lit) == CharAt(mode, 0) = lit[1] /\ CharAt(mode, 1) = lit[2]

\* a sanitizer that tests mode[0] == 'r' before strncmp(mode, "r+", 2)
sanitize_plain_first(mode) ==
    IF CharAt(mode, 0) = "r" THEN <<"r">>
    ELSE IF strncmp2(mode, <<"r", "+">>) THEN <<"r", "+">>
    ELSE IF strncmp2(mode, <<"w", "+">>) THEN <<"w", "+">>
    ELSE IF CharAt(mode, 0) = "w" THEN <<"w">>
    ELSE IF strncmp2(mode, <<"a", "+">>) THEN <<"a", "+">>
    ELSE IF CharAt(mode, 0) = "a" THEN <<"a">>
    ELSE <<"gmx_fatal">>

\* mpi_fio_open, "sanitize the mode string": the new mode, or <<"gmx_fatal">>
sanitize(mode) ==
    IF strncmp2(mode, <<"r", "+">>) THEN <<"r", "+">>
    ELSE IF CharAt(mode, 0) = "r" THEN <<"r">>
    ELSE IF strncmp2(mode, <<"w", "+">>) THEN <<"w", "+">>
    ELSE IF CharAt(mode, 0) = "w" THEN <<"w">>
    ELSE IF strncmp2(mode, <<"a", "+">>) THEN <<"a", "+">>
    ELSE IF CharAt(mode, 0) = "a" THEN <<"a">>
    ELSE <<"gmx_fatal">>

\* mpi_fio_open: newmode before the binary marker; a .tpa file keeps the mode as it is
newmodeOf(mode, ft) == IF ft.ftp = "efTPA" THEN mode ELSE sanitize(mode)

\* mpi_fio_open: "Not ascii, add b to file mode"
withBinaryMarker(newmode, ft) ==
    IF ~ft.ascii /\ (\A i \in 1..Len(newmode) : newmode[i] \notin {"b", "B"})
    THEN Append(newmode, "b")
    ELSE newmode

\* bRead = (newmode[0]=='r' && newmode[1]!='+')
bReadOf(newmode) == CharAt(newmode, 0) = "r" /\ CharAt(newmode, 1) # "+"

\* bReadWrite = (newmode[1]=='+'); for an empty newmode the char was never written
\* and the comparison can give either answer
bReadWriteOf(newmode) ==
    IF CharAt(newmode, 1) = Uninit THEN BOOLEAN ELSE {CharAt(newmode, 1) = "+"}

\* no call has ended the process
Running == result.fn \notin {"gmx_fatal", "SIGSEGV"}

\* the thread that makes the calls
Caller == CHOOSE t \in Threads : TRUE

\* the pointers after gmx_fio_make_dummy and the four assignments of gmx_fio_insert
InsertAtEnd(h) ==
    LET last == IF open_files = NULL THEN Dummy ELSE prev[Dummy]
        nx   == IF open_files = NULL THEN [next EXCEPT ![Dummy] = Dummy] ELSE next
        pv   == IF open_files = NULL THEN [prev EXCEPT ![Dummy] = Dummy] ELSE prev
    IN  /\ open_files' = Dummy
        /\ next' = [nx EXCEPT ![h] = Dummy, ![last] = h]
        /\ prev' = [pv EXCEPT ![Dummy] = h, ![h] = last]

\* the pointers after gmx_fio_remove(h)
Unlink(h) ==
    /\ next' = [next EXCEPT ![prev[h]] = next[h], ![h] = h]
    /\ prev' = [prev EXCEPT ![next[h]] = prev[h], ![h] = h]

\* gmx_fio_open(fn, mode): the file name is NULL or names a file of type ft; rw is
\* what the comparison of a char that was never written gives
do_gmx_fio_open(h, fnIsNull, mode, ft, rw) ==
    /\ Running
    /\ LET newmode == newmodeOf(mode, ft)
           bR      == bReadOf(withBinaryMarker(newmode, ft))
       IN  IF newmode = <<"gmx_fatal">>
           THEN /\ result' = [fn |-> "gmx_fatal"]
                /\ UNCHANGED <<open_files, next, prev, mem, bOpen, fp,
                               bRead, bReadWrite, bStdio, iFTP, streams>>
           ELSE /\ open_file_mutex = NoThread
                /\ mem[h] = "free"
                /\ \A g \in Handles : mem[g] = "free" => h <= g
                /\ rw \in bReadWriteOf(withBinaryMarker(newmode, ft))
                /\ mem' = [mem EXCEPT ![h] = "alloc"]
                /\ iFTP' = [iFTP EXCEPT ![h] = IF fnIsNull THEN "efTPA" ELSE ft.ftp]
                /\ bStdio' = [bStdio EXCEPT ![h] = fnIsNull]
                /\ fp' = [fp EXCEPT ![h] = IF ~fnIsNull THEN h
                                           ELSE IF bR THEN Stdin ELSE Stdout]
                /\ streams' = IF fnIsNull THEN streams ELSE streams \cup {h}
                /\ bRead' = [bRead EXCEPT ![h] = bR]
                /\ bReadWrite' = [bReadWrite EXCEPT ![h] = rw]
                /\ bOpen' = [bOpen EXCEPT ![h] = TRUE]
                /\ InsertAtEnd(h)
                /\ result' = [fn |-> "gmx_fio_open", ret |-> h, newmode |-> newmode]
    /\ UNCHANGED <<open_file_mutex, mtx, pc, locals, held, live, closedPtrs, misuse,
                   trav, h5vars>>

\* what ffclose can return
CloseResults == {0, EOF}

\* a gmx_fio_close_locked that closes the stream of every handle
StreamsAfterClose_any(h) ==
    IF fp[h] # NULL THEN streams \ {fp[h]} ELSE streams

\* gmx_fio_close_locked(h): the stream is closed unless it is stdin or stdout
StreamsAfterClose(h) ==
    IF ~bStdio[h] /\ fp[h] # NULL THEN streams \ {fp[h]} ELSE streams

\* rc of gmx_fio_close_locked(h) when ffclose returns r
CloseLockedResult(h, r) == IF ~bStdio[h] /\ fp[h] # NULL THEN r ELSE 0

\* sfree(fio): the memory of the handle is free again, with any content
Freed(h) ==
    /\ mem' = [mem EXCEPT ![h] = "free"]
    /\ fp' = [fp EXCEPT ![h] = h]
    /\ bRead' = [bRead EXCEPT ![h] = FALSE]
    /\ bReadWrite' = [bReadWrite EXCEPT ![h] = FALSE]
    /\ bStdio' = [bStdio EXCEPT ![h] = FALSE]
    /\ iFTP' = [iFTP EXCEPT ![h] = "efNR"]

\* gmx_fio_close(h) on a handle a gmx_fio_open returned and that was not closed
\* since; r is what ffclose returns
do_gmx_fio_close(h, r) ==
    /\ Running
    /\ mem[h] = "alloc"
    /\ bOpen[h]
    /\ open_file_mutex = NoThread
    /\ Unlink(h)
    /\ streams' = StreamsAfterClose(h)
    /\ bOpen' = [bOpen EXCEPT ![h] = FALSE]
    /\ Freed(h)
    /\ result' = [fn |-> "gmx_fio_close", rc |-> CloseLockedResult(h, r)]
    /\ UNCHANGED <<open_files, open_file_mutex, mtx,
                   pc, locals, held, live, closedPtrs, misuse, trav, h5vars>>

\* gmx_fio_get_first() of a whole call: it makes the dummy head when there is none
\* and leaves open_file_mutex locked when the list is empty
FirstOfList ==
    /\ open_files' = Dummy
    /\ open_file_mutex' = IF OpenList = <<>> THEN Caller ELSE NoThread

\* the pointers after the gmx_fio_make_dummy of gmx_fio_get_first
DummyMade ==
    /\ next' = IF open_files = NULL THEN [next EXCEPT ![Dummy] = Dummy] ELSE next
    /\ prev' = IF open_files = NULL THEN [prev EXCEPT ![Dummy] = Dummy] ELSE prev

\* the index in the list of the first handle with fp == f, or 0
RECURSIVE FindStream(_, _, _)
FindStream(list, i, f) ==
    IF i > Len(list) THEN 0
    ELSE IF fp[list[i]] = f THEN i
    ELSE FindStream(list, i + 1, f)

\* the streams callers pass to gmx_fio_fclose
StreamInputs == Handles \cup {Stdin, Stdout, ForeignFp}

\* gmx_fio_fclose(f); r is what ffclose returns
do_gmx_fio_fclose(f, r) ==
    /\ Running
    /\ open_file_mutex = NoThread
    /\ FirstOfList
    /\ LET i == FindStream(OpenList, 1, f)
       IN  IF i = 0
           THEN /\ DummyMade
                /\ result' = [fn |-> "gmx_fio_fclose", rc |-> -1]
                /\ UNCHANGED <<bOpen, streams>>
           ELSE LET cl == OpenList[i]
                IN  /\ bOpen[cl]
                    /\ streams' = StreamsAfterClose(cl)
                    /\ bOpen' = [bOpen EXCEPT ![cl] = FALSE]
                    /\ Unlink(cl)
                    /\ result' = [fn |-> "gmx_fio_fclose",
                                  rc |-> CloseLockedResult(cl, r)]
    /\ UNCHANGED <<mtx, mem, fp, bRead, bReadWrite, bStdio, iFTP,
                   pc, locals, held, live, closedPtrs, misuse, trav, h5vars>>

\* gmx_fio_get_output_file_positions: the condition under which cur gets an entry
IsOutputFile(h) ==
    /\ bOpen[h]
    /\ ~bRead[h]
    /\ ~bStdio[h]
    /\ iFTP[h] # "efCPT"
    /\ iFTP[h] # "efNR"

\* a loop that takes its entries from the end of the list to its start
RECURSIVE OutputFilesLoop_backwards(_, _, _)
OutputFilesLoop_backwards(list, i, outputfiles) ==
    IF i > Len(list) THEN outputfiles
    ELSE OutputFilesLoop_backwards(list, i + 1,
             IF IsOutputFile(list[i]) THEN <<list[i]>> \o outputfiles ELSE outputfiles)

\* gmx_fio_get_output_file_positions: while(cur) from the handle at index i on; an
\* entry holds the file name of the handle, its position and the checksum read
\* from its stream, and stands here as the handle
RECURSIVE OutputFilesLoop(_, _, _)
OutputFilesLoop(list, i, outputfiles) ==
    IF i > Len(list) THEN outputfiles
    ELSE OutputFilesLoop(list, i + 1,
             IF IsOutputFile(list[i]) THEN Append(outputfiles, list[i]) ELSE outputfiles)

\* gmx_fio_get_output_file_positions(&outputfiles, &nfiles)
do_gmx_fio_get_output_file_positions ==
    /\ Running
    /\ open_file_mutex = NoThread
    /\ FirstOfList
    /\ DummyMade
    /\ LET outputfiles == OutputFilesLoop(OpenList, 1, <<>>)
       IN  result' = [fn |-> "gmx_fio_get_output_file_positions", rc |-> 0,
                      outputfiles |-> outputfiles, nfiles |-> Len(outputfiles)]
    /\ UNCHANGED <<mtx, mem, bOpen, fp, bRead, bReadWrite, bStdio, iFTP, streams,
                   pc, locals, held, live, closedPtrs, misuse, trav, h5vars>>

\* gmx_fio_all_output_fsync: the condition under which cur is synced
IsSyncedFile(h) ==
    /\ bOpen[h]
    /\ ~bRead[h]
    /\ ~bStdio[h]
    /\ iFTP[h] # "efNR"

\* a loop that ends at the first handle whose fsync fails
RECURSIVE FsyncLoop_stops(_, _, _, _, _)
FsyncLoop_stops(list, i, failing, first, synced) ==
    IF i > Len(list) \/ first # NULL THEN [ret |-> first, synced |-> synced]
    ELSE IF IsSyncedFile(list[i])
         THEN FsyncLoop_stops(list, i + 1, failing,
                        IF list[i] \in failing /\ first = NULL THEN list[i] ELSE first,
                        Append(synced, list[i]))
         ELSE FsyncLoop_stops(list, i + 1, failing, first, synced)

\* gmx_fio_all_output_fsync: while(cur) from the handle at index i on; failing are
\* the handles whose gmx_fsync returns an error; synced are the handles
\* gmx_fio_int_fsync was called on, in the order of the calls
RECURSIVE FsyncLoop(_, _, _, _, _)
FsyncLoop(list, i, failing, first, synced) ==
    IF i > Len(list) THEN [ret |-> first, synced |-> synced]
    ELSE IF IsSyncedFile(list[i])
         THEN FsyncLoop(list, i + 1, failing,
                        IF list[i] \in failing /\ first = NULL THEN list[i] ELSE first,
                        Append(synced, list[i]))
         ELSE FsyncLoop(list, i + 1, failing, first, synced)

\* gmx_fio_all_output_fsync()
do_gmx_fio_all_output_fsync(failing) ==
    /\ Running
    /\ open_file_mutex = NoThread
    /\ FirstOfList
    /\ DummyMade
    /\ LET r == FsyncLoop(OpenList, 1, failing, NULL, <<>>)
       IN  result' = [fn |-> "gmx_fio_all_output_fsync", ret |-> r.ret,
                      synced |-> r.synced]
    /\ UNCHANGED <<mtx, mem, bOpen, fp, bRead, bReadWrite, bStdio, iFTP, streams,
                   pc, locals, held, live, closedPtrs, misuse, trav, h5vars>>

NextCalls ==
    \/ \E h \in Handles, fnIsNull \in BOOLEAN, mode \in PlainModes,
          ft \in FewFileTypes, rw \in BOOLEAN : do_gmx_fio_open(h, fnIsNull, mode, ft, rw)
    \/ \E h \in Handles, r \in CloseResults : do_gmx_fio_close(h, r)
    \/ \E f \in StreamInputs, r \in CloseResults : do_gmx_fio_fclose(f, r)
    \/ do_gmx_fio_get_output_file_positions
    \/ \E failing \in SUBSET Handles : do_gmx_fio_all_output_fsync(failing)

\* a program that calls the exported functions one after the other
SpecCalls == Init /\ [][NextCalls]_vars

\* gmx_fio_open of a program that has no more than two files open at a time
gmx_fio_open_two_at_a_time ==
    /\ Len(OpenList) <= 1
    /\ \E h \in Handles, fnIsNull \in BOOLEAN, mode \in ModeInputs,
          ft \in FileTypeInputs, rw \in BOOLEAN : do_gmx_fio_open(h, fnIsNull, mode, ft, rw)

NextOpenMode ==
    \/ gmx_fio_open_two_at_a_time
    \/ \E h \in Handles, r \in CloseResults : do_gmx_fio_close(h, r)

\* a program that opens files with any mode string, and closes them
SpecOpenMode == Init /\ [][NextOpenMode]_vars


\* =====================================================================
\*  properties of whole calls
\* =====================================================================

\* the mode string the leading characters of mode stand for
LeadingMode(mode) ==
    <<CharAt(mode, 0)>> \o (IF CharAt(mode, 1) = "+" THEN <<"+">> ELSE <<>>)

\* the call opened a file with the mode its leading characters stand for when they
\* are one of the six, and ended the process with nothing allocated or inserted
\* when they are not
NormalizedOrFatal(mode) ==
    IF CharAt(mode, 0) \in {"r", "w", "a"}
    THEN /\ result'.fn = "gmx_fio_open"
         /\ result'.newmode \in SaneModes
         /\ result'.newmode = LeadingMode(mode)
         /\ OpenList' = Append(OpenList, result'.ret)
    ELSE /\ result'.fn = "gmx_fatal"
         /\ mem' = mem
         /\ OpenList' = OpenList
         /\ UNCHANGED <<open_files, next, prev, bOpen, streams>>

OpenInputs == Handles \X BOOLEAN \X ModeInputs \X FileTypeInputs \X BOOLEAN

\* C21 as claimed: gmx_fio_open normalizes every mode string to one of r, r+, w,
\* w+, a, a+ by its leading characters and ends the process, with no handle
\* allocated or inserted, for every other mode string, whatever the file type
C21_ModeNormalizedForAllTypes ==
    [][ \A x \in OpenInputs :
            do_gmx_fio_open(x[1], x[2], x[3], x[4], x[5]) => NormalizedOrFatal(x[3]) ]_vars

\* C21: for every file type other than efTPA gmx_fio_open normalizes the mode
\* string to one of r, r+, w, w+, a, a+ by its leading characters and ends the
\* process, with no handle allocated or inserted, for every other mode string; for
\* a file of type efTPA it normalizes nothing and no mode string is fatal
C21_ModeNormalized ==
    [][ \A x \in OpenInputs :
            do_gmx_fio_open(x[1], x[2], x[3], x[4], x[5]) =>
                IF x[4].ftp # "efTPA"
                THEN NormalizedOrFatal(x[3])
                ELSE /\ result'.fn = "gmx_fio_open"
                     /\ result'.newmode = x[3] ]_vars

\* a mode string was fatal while a file was open
C21_Witness == result.fn = "gmx_fatal" /\ OpenList # <<>>

\* no lock of the registry is held
NoLockHeld ==
    /\ open_file_mutex = NoThread
    /\ \A n \in Nodes : mtx[n] = NoThread

\* the effect of gmx_fio_close(h): h alone left the list, it is marked closed, its
\* stream is closed unless it is stdin or stdout, and no lock is held
C22_CloseStep(h) ==
    /\ h \in Range(OpenList)
    /\ OpenList' = SeqRemove(OpenList, h)
    /\ ~bOpen'[h]
    /\ streams' = IF bStdio[h] THEN streams ELSE streams \ {fp[h]}
    /\ bStdio[h] => fp[h] \in {Stdin, Stdout}
    /\ ~bStdio[h] => fp[h] \in streams
    /\ NoLockHeld'

\* C22: gmx_fio_close(h) on an open handle removes exactly h from the registry (the
\* other handles stay linked in unchanged relative order), marks h closed, closes
\* its stream unless h is bound to standard input or output, and returns with
\* open_file_mutex and every handle lock released
C22_CloseFrame ==
    [][ \A h \in Handles, r \in CloseResults : do_gmx_fio_close(h, r) => C22_CloseStep(h) ]_vars

\* a handle was closed while another one was open: that one is still in the list
\* and its stream is open
C22_Witness ==
    /\ result.fn = "gmx_fio_close"
    /\ \E h \in Handles : h \in Range(OpenList) /\ fp[h] \in streams
    /\ \E g \in Handles : mem[g] = "free" /\ ~bOpen[g]

\* the handles of the list that wrap the stream f, in list order
Wrapping(f) == SelectSeq(OpenList, LAMBDA h : fp[h] = f)

\* the effect of gmx_fio_fclose(f) when ffclose returns r
C23_FcloseStep(f, r) ==
    /\ IF Wrapping(f) # <<>>
       THEN LET h == Wrapping(f)[1]
            IN  /\ OpenList' = SeqRemove(OpenList, h)
                /\ ~bOpen'[h]
                /\ \A g \in Handles \ {h} : bOpen'[g] = bOpen[g]
                /\ result'.rc = IF bStdio[h] THEN 0 ELSE r
       ELSE /\ result'.rc = -1
            /\ OpenList' = OpenList
            /\ UNCHANGED <<bOpen, streams>>
    /\ NoLockHeld'

\* C23: gmx_fio_fclose(fp) closes and unlinks the first handle in list order that
\* wraps fp and returns the result of the close; if no handle wraps fp it returns
\* -1 and leaves the registry as it is; in both cases it returns holding no lock
C23_FcloseFrame ==
    [][ \A f \in StreamInputs, r \in CloseResults :
            do_gmx_fio_fclose(f, r) => C23_FcloseStep(f, r) ]_vars

\* h is open, was not opened read-only and is not bound to stdin or stdout
OpenForOutput(h) == bOpen[h] /\ ~bRead[h] /\ ~bStdio[h]

PositionsReturned == result.fn = "gmx_fio_get_output_file_positions"

CheckpointOrDebug(h) == iFTP[h] \in {"efCPT", "efNR"}

FirstOrNull(q) == IF q = <<>> THEN NULL ELSE q[1]

\* gmx_fio_all_output_fsync called fsync on the handles of wanted, in list order,
\* whichever of them fail, returned the first one that failed, raised no error and
\* left the list alone
C25_FsyncStep(failing, wanted) ==
    /\ result'.synced = wanted
    /\ result'.ret = FirstOrNull(SelectSeq(wanted, LAMBDA h : h \in failing))
    /\ Running'
    /\ OpenList' = OpenList
    /\ UNCHANGED <<bOpen, streams>>

\* C25 as claimed: gmx_fio_all_output_fsync calls fsync on every open output handle
\* of the registry (open, not read-only, not on stdin or stdout), also after a
\* failure, and returns the first handle in traversal order whose fsync failed, or
\* none; a failure never ends the traversal or raises an error
C25_FsyncEveryOutputHandle ==
    [][ \A failing \in SUBSET Handles :
            do_gmx_fio_all_output_fsync(failing) =>
                C25_FsyncStep(failing, SelectSeq(OpenList, OpenForOutput)) ]_vars

\* C25: gmx_fio_all_output_fsync calls fsync on every handle of the registry that is
\* open, not read-only, not on stdin or stdout and not a file of unknown type, also
\* after a failure, and returns the first handle in traversal order whose fsync
\* failed, or none; a failure never ends the traversal or raises an error
C25_FsyncEveryOutputFile ==
    [][ \A failing \in SUBSET Handles :
            do_gmx_fio_all_output_fsync(failing) =>
                C25_FsyncStep(failing,
                    SelectSeq(OpenList, LAMBDA h : OpenForOutput(h) /\ iFTP[h] # "efNR")) ]_vars

\* the fsync of the first of two output files failed and the second was synced too
C25_Witness ==
    /\ result.fn = "gmx_fio_all_output_fsync"
    /\ Len(result.synced) = 2
    /\ result.ret = result.synced[1]


\* =====================================================================
\*  one GmxH5mdTimeDataBlock, used by the code that constructed it
\* =====================================================================

\* the writingInterval arguments of the constructor
IntervalInputs == {-1, 0, 1, 2}

\* the steps of the frames the owner writes and the slots it names
BlockSteps == 0..(2 * MaxFrames - 1)
FrameInputs == 0..(MaxFrames - 1)

\* the fields and streams of gmxfio.c, which a data block does not touch
fiovars == <<bRead, bReadWrite, bStdio, iFTP, streams>>

\* a block in a file that is open for writing, constructed with some writingInterval
InitBlock ==
    /\ InitRegistry /\ InitCalls /\ misuse = FALSE
    /\ file_ = 1
    /\ filemode_ = "w"
    /\ fileExists = TRUE
    /\ \E writingInterval \in IntervalInputs :
           dataBlocks_ = <<NewDataBlock(groupNameOf(LambdaPath), dataBlockNameOf(LambdaPath),
                                        writingInterval)>>
    /\ disk = DiskWith(<<>>, LambdaPath, [chunk |-> 1, frames |-> <<>>])
    /\ provenance = <<>>
    /\ h5err = "none"
    /\ properties = <<>>
    /\ numFlushes = 0

\* writeFrame(data, step, time)
block_writeFrame(step, time) ==
    /\ FrameIndexOf(dataBlocks_[1], step) < MaxFrames
    /\ writeFrame(dataBlocks_, disk, 1, step, time)
    /\ result' = [fn |-> "writeFrame"]
    /\ UNCHANGED <<file_, filemode_, fileExists, provenance, numFlushes, properties,
                   regvars, fiovars>>

\* writeFrame(data, step, time, frame)
block_writeFrame_at(step, time, frame) ==
    /\ writeFrameAt(dataBlocks_, disk, 1, step, time, frame)
    /\ result' = [fn |-> "writeFrame"]
    /\ UNCHANGED <<file_, filemode_, fileExists, provenance, numFlushes, properties,
                   regvars, fiovars>>

\* readFrame(data, frame)
block_readFrame(frame) ==
    /\ result' = [fn |-> "readFrame", ret |-> readFrame(dataBlocks_[1], frame)]
    /\ h5err' = "none"
    /\ UNCHANGED <<file_, filemode_, dataBlocks_, fileExists, disk, provenance, numFlushes, properties,
                   regvars, fiovars>>

\* a readNextFrame that moves its cursor whatever readFrame returns
block_readNextFrame_always_advances ==
    LET b == dataBlocks_[1]
        ok == readFrame(b, b.readingFrameIndex)
    IN  /\ b.readingFrameIndex <= MaxFrames
        /\ result' = [fn |-> "readNextFrame", ret |-> ok]
        /\ dataBlocks_' = [dataBlocks_ EXCEPT ![1].readingFrameIndex = @ + 1]
        /\ h5err' = "none"
        /\ UNCHANGED <<file_, filemode_, fileExists, disk, provenance, numFlushes, properties,
                       regvars, fiovars>>

\* readNextFrame(data): readFrame(data, readingFrameIndex_), and the cursor moves on
\* when that returned true
block_readNextFrame ==
    LET b == dataBlocks_[1]
        ok == readFrame(b, b.readingFrameIndex)
    IN  /\ result' = [fn |-> "readNextFrame", ret |-> ok]
        /\ dataBlocks_' = IF ok THEN [dataBlocks_ EXCEPT ![1].readingFrameIndex = @ + 1]
                          ELSE dataBlocks_
        /\ h5err' = "none"
        /\ UNCHANGED <<file_, filemode_, fileExists, disk, provenance, numFlushes, properties,
                       regvars, fiovars>>

NextBlock ==
    \/ \E step \in BlockSteps : \E time \in TimesOf(step) : block_writeFrame(step, time)
    \/ \E step \in BlockSteps, frame \in FrameInputs : \E time \in TimesOf(step) :
           block_writeFrame_at(step, time, frame)
    \/ \E frame \in 0..MaxFrames : block_readFrame(frame)
    \/ block_readNextFrame

SpecBlock == InitBlock /\ [][NextBlock]_vars


\* =====================================================================
\*  properties of a data block
\* =====================================================================

TheBlock == dataBlocks_[1]

Max(a, b) == IF a >= b THEN a ELSE b

\* the frame went to slot f and writingFrameIndex is the greater of what it was
\* and f + 1
WroteSlot(step, time, f) ==
    /\ disk'[TheBlock.fullName].frames[f + 1] = [step |-> step, time |-> time]
    /\ TheBlock'.writingFrameIndex = Max(TheBlock.writingFrameIndex, f + 1)

C26_WriteStep ==
    /\ \A step \in BlockSteps : \A time \in TimesOf(step) :
           /\ block_writeFrame(step, time) =>
                  WroteSlot(step, time,
                            IF TheBlock.writingInterval > 0
                            THEN step \div TheBlock.writingInterval
                            ELSE TheBlock.writingFrameIndex)
           /\ \A frame \in FrameInputs :
                  block_writeFrame_at(step, time, frame) => WroteSlot(step, time, frame)
    /\ TheBlock'.writingFrameIndex >= TheBlock.writingFrameIndex

\* C26: writeFrame without a frame index writes slot writingFrameIndex when
\* writingInterval is not positive and slot step / writingInterval otherwise;
\* after a writeFrame to slot f, with or without an explicit index,
\* writingFrameIndex is max(previous writingFrameIndex, f + 1), and no call ever
\* decreases it
C26_WritingIndex == [][C26_WriteStep]_vars

\* a frame was written to slot 0 after slot 1: writingFrameIndex stayed at 2
C26_Witness ==
    /\ result.fn = "writeFrame"
    /\ TheBlock.writingFrameIndex = 2
    /\ Len(disk[TheBlock.fullName].frames) = 2
    /\ disk[TheBlock.fullName].frames[1].step > disk[TheBlock.fullName].frames[2].step
    /\ disk[TheBlock.fullName].frames[2] # Fill

C27_CursorInRange ==
    /\ 0 <= TheBlock.readingFrameIndex
    /\ TheBlock.readingFrameIndex <= TheBlock.writingFrameIndex

C27_ReadStep ==
    /\ \A frame \in 0..MaxFrames :
           block_readFrame(frame) =>
               /\ frame >= TheBlock.writingFrameIndex => ~result'.ret
               /\ h5err' = "none"
               /\ UNCHANGED <<dataBlocks_, disk>>
    /\ block_readNextFrame =>
           /\ result'.ret = readFrame(TheBlock, TheBlock.readingFrameIndex)
           /\ result'.ret = (TheBlock.readingFrameIndex < TheBlock.writingFrameIndex)
           /\ TheBlock'.readingFrameIndex =
                  TheBlock.readingFrameIndex + (IF result'.ret THEN 1 ELSE 0)
           /\ h5err' = "none"

\* C27: readFrame(buffer, frame) returns false without an error when frame >=
\* writingFrameIndex; readNextFrame returns what readFrame at readingFrameIndex
\* returns, moves readingFrameIndex on by one when that is true and leaves it when
\* it is false; 0 <= readingFrameIndex <= writingFrameIndex after any sequence of
\* writes and reads
C27_ReadCursor == [](C27_CursorInRange) /\ [][C27_ReadStep]_vars

\* every written frame was read and one more readNextFrame returned false
C27_Witness ==
    /\ result.fn = "readNextFrame"
    /\ ~result.ret
    /\ TheBlock.readingFrameIndex = TheBlock.writingFrameIndex
    /\ TheBlock.writingFrameIndex >= 1


\* =====================================================================
\*  GmxH5mdIo::setStringProperty and GmxH5mdIo::setNumericProperty
\* =====================================================================

\* the group the properties of the particles are attached to
ParticlesGroup == <<"/", "particles", "/", "system">>

\* std::string values character by character: atom names
NameInputs == { <<"C">>, <<"C", "A">>, <<"N">> }

\* the vectors callers pass: one value for every particle
StringVectors == [1..NumParticles -> NameInputs]
NumericVectors == [1..NumParticles -> {1, 2}]

\* maxStringLength: 0 for strings of variable length
MaxStringLengthInputs == {0, 1, 2}

\* std::string dataSetName(containerName + "/" + propertyName)
dataSetNameOf(containerName, propertyName) == containerName \o <<"/", propertyName>>

\* H5Lexists(file_, dataSetName, H5P_DEFAULT)
H5Lexists(dataSetName) == dataSetName \in DOMAIN properties

\* strncpy(dst, src, n) into a string of the fixed size n: the first n characters
strncpy(src, n) == SubSeq(src, 1, IF Len(src) < n THEN Len(src) ELSE n)

\* the strings setStringProperty hands to writeData
propertyValuesChars(propertyValues, maxStringLength) ==
    IF maxStringLength > 0
    THEN [i \in DOMAIN propertyValues |-> strncpy(propertyValues[i], maxStringLength)]
    ELSE propertyValues

\* the data sets of the file after dataSetName was written in full
PropertiesWith(dataSetName, size, values) ==
    [n \in DOMAIN properties \cup {dataSetName} |->
        IF n = dataSetName THEN [size |-> size, values |-> values] ELSE properties[n]]

\* openOrCreateGroup or the write fails: the file is closed, or it is open for
\* reading and something has to be written
CannotSet(dataSetName, replaceExisting) ==
    \/ file_ < 0
    \/ filemode_ = "r" /\ (~H5Lexists(dataSetName) \/ replaceExisting)

\* GmxH5mdIo::setStringProperty(containerName, propertyName, propertyValues,
\* replaceExisting, maxStringLength); a property is replaced with the
\* maxStringLength it was created with
setStringProperty(containerName, propertyName, propertyValues, replaceExisting, maxStringLength) ==
    LET dataSetName == dataSetNameOf(containerName, propertyName)
    IN  /\ H5Lexists(dataSetName) => properties[dataSetName].size = maxStringLength
        /\ IF CannotSet(dataSetName, replaceExisting)
           THEN /\ h5err' = "storage error"
                /\ UNCHANGED properties
           ELSE /\ h5err' = "none"
                /\ IF ~H5Lexists(dataSetName) \/ replaceExisting = TRUE
                   THEN properties' =
                            PropertiesWith(dataSetName, maxStringLength,
                                           propertyValuesChars(propertyValues, maxStringLength))
                   ELSE UNCHANGED properties
        /\ UNCHANGED <<file_, filemode_, dataBlocks_, fileExists, disk, provenance, numFlushes,
                       regvars, callvars>>

\* a setNumericProperty that writes whether or not the data set exists
setNumericProperty_always_writes(containerName, propertyName, propertyValues, unit, replaceExisting) ==
    LET dataSetName == dataSetNameOf(containerName, propertyName)
    IN  /\ IF CannotSet(dataSetName, replaceExisting)
           THEN /\ h5err' = "storage error"
                /\ UNCHANGED properties
           ELSE /\ h5err' = "none"
                /\ properties' = PropertiesWith(dataSetName, 0, propertyValues)
        /\ UNCHANGED <<file_, filemode_, dataBlocks_, fileExists, disk, provenance, numFlushes,
                       regvars, callvars>>

\* GmxH5mdIo::setNumericProperty<T>(containerName, propertyName, propertyValues,
\* unit, replaceExisting)
setNumericProperty(containerName, propertyName, propertyValues, unit, replaceExisting) ==
    LET dataSetName == dataSetNameOf(containerName, propertyName)
    IN  /\ IF CannotSet(dataSetName, replaceExisting)
           THEN /\ h5err' = "storage error"
                /\ UNCHANGED properties
           ELSE /\ h5err' = "none"
                /\ IF ~H5Lexists(dataSetName) \/ replaceExisting = TRUE
                   THEN properties' = PropertiesWith(dataSetName, 0, propertyValues)
                   ELSE UNCHANGED properties
        /\ UNCHANGED <<file_, filemode_, dataBlocks_, fileExists, disk, provenance, numFlushes,
                       regvars, callvars>>

StringPropertyInputs == StringVectors \X BOOLEAN \X MaxStringLengthInputs
NumericPropertyInputs == NumericVectors \X BOOLEAN

NextProperties ==
    \/ \E mode \in Modes : openFile(mode)
    \/ closeFile
    \/ \E x \in StringPropertyInputs :
           setStringProperty(ParticlesGroup, "atom_name", x[1], x[2], x[3])
    \/ \E x \in NumericPropertyInputs :
           setNumericProperty(ParticlesGroup, "charge", x[1], "", x[2])

\* one GmxH5mdIo instance whose caller sets the properties of the particles
SpecProperties == Init /\ [][NextProperties]_vars

\* =====================================================================
\*  properties of the property setters
\* =====================================================================

AtomName == dataSetNameOf(ParticlesGroup, "atom_name")
Charge == dataSetNameOf(ParticlesGroup, "charge")

\* a call that did not fail left an existing property alone when replaceExisting
\* is false, and otherwise stored the values `stored`
C28_SetStep(dataSetName, replaceExisting, stored) ==
    h5err' = "none" =>
        IF H5Lexists(dataSetName) /\ ~replaceExisting
        THEN properties' = properties
        ELSE /\ properties'[dataSetName].values = stored
             /\ \A n \in DOMAIN properties \ {dataSetName} : properties'[n] = properties[n]

CutTo(values, n) ==
    [i \in DOMAIN values |->
        IF n > 0 /\ Len(values[i]) > n
        THEN [k \in 1..n |-> values[i][k]]
        ELSE values[i]]

TimeInputs == {-2, 0, 3}

\* what a read of the time of a frame that was never written may give
UndefinedTimes == TimeInputs \cup {-1}

\* the frames of a file with the given times, written at steps 0, 1, ...
FramesOfTimes(times) == [k \in DOMAIN times |-> [step |-> k - 1, time |-> times[k]]]

\* the sequences of at most n elements of S
RECURSIVE SeqsUpTo(_, _)
SeqsUpTo(S, n) ==
    IF n = 0 THEN {<<>>}
    ELSE LET shorter == SeqsUpTo(S, n - 1)
         IN  shorter \cup {Append(q, x) : q \in shorter, x \in S}

\* the lists of data blocks an open file can have: every block once
BlockLists ==
    {q \in SeqsUpTo({PositionPath, LambdaPath}, MaxBlocks) :
        \A i, j \in 1..Len(q) : q[i] = q[j] => i = j}

\* a file open for reading whose blocks were found with the frames they hold
InitTimes ==
    /\ InitRegistry /\ InitCalls /\ misuse = FALSE
    /\ file_ = 1
    /\ filemode_ = "r"
    /\ fileExists = TRUE
    /\ \E paths \in BlockLists :
       \E times \in [1..Len(paths) -> SeqsUpTo(TimeInputs, MaxFrames)] :
           /\ dataBlocks_ =
                  [i \in 1..Len(paths) |->
                      [NewDataBlock(groupNameOf(paths[i]), dataBlockNameOf(paths[i]), 0)
                          EXCEPT !.writingFrameIndex = Len(times[i])]]
           /\ disk = [q \in {paths[i] : i \in 1..Len(paths)} |->
                         LET i == CHOOSE k \in 1..Len(paths) : paths[k] = q
                         IN  [chunk |-> 1, frames |-> FramesOfTimes(times[i])]]
    /\ provenance = <<>>
    /\ h5err = "none"
    /\ properties = <<>>
    /\ numFlushes = 0

\* dataBlock.getTimeOfFrame(frame); the time of a frame at or after
\* writingFrameIndex is not defined: `undefined` is what the read gives then
TimeOfFrameOr(b, frame, undefined) ==
    IF frame >= 0 /\ frame < b.writingFrameIndex
    THEN getTimeOfFrame(b, frame) ELSE undefined

min(a, b) == IF b < a THEN b ELSE a
max(a, b) == IF a < b THEN b ELSE a

\* the loop of getFirstTimeFromAllDataBlocks from block i on
RECURSIVE FirstTimeLoop(_, _, _, _, _)
FirstTimeLoop(blocks, i, firstTime, foundAny, undefined) ==
    IF i > Len(blocks) THEN <<firstTime, foundAny>>
    ELSE LET time == TimeOfFrameOr(blocks[i], 0, undefined[i])
         IN  FirstTimeLoop(blocks, i + 1, min(firstTime, time), TRUE, undefined)

\* real GmxH5mdIo::getFirstTimeFromAllDataBlocks()
getFirstTimeFromAllDataBlocks(undefined) ==
    LET loop == FirstTimeLoop(dataBlocks_, 1, REAL_MAX, FALSE, undefined)
    IN  IF loop[2] THEN loop[1] ELSE -1

\* the loop of getFinalTimeFromAllDataBlocks from block i on
RECURSIVE FinalTimeLoop(_, _, _, _)
FinalTimeLoop(blocks, i, finalTime, foundAny) ==
    IF i > Len(blocks) THEN <<finalTime, foundAny>>
    ELSE LET numFrames == numberOfFrames(blocks[i])
         IN  IF numFrames < 1
             THEN FinalTimeLoop(blocks, i + 1, finalTime, foundAny)
             ELSE LET time == getTimeOfFrame(blocks[i], numFrames - 1)
                  IN  FinalTimeLoop(blocks, i + 1, max(finalTime, time), TRUE)

\* real GmxH5mdIo::getFinalTimeFromAllDataBlocks()
getFinalTimeFromAllDataBlocks ==
    LET loop == FinalTimeLoop(dataBlocks_, 1, 0, FALSE)
    IN  IF loop[2] THEN loop[1] ELSE -1

call_getFirstTimeFromAllDataBlocks(undefined) ==
    /\ result' = [fn |-> "getFirstTimeFromAllDataBlocks",
                  ret |-> getFirstTimeFromAllDataBlocks(undefined)]
    /\ UNCHANGED <<h5vars, regvars, fiovars>>

call_getFinalTimeFromAllDataBlocks ==
    /\ result' = [fn |-> "getFinalTimeFromAllDataBlocks", ret |-> getFinalTimeFromAllDataBlocks]
    /\ UNCHANGED <<h5vars, regvars, fiovars>>

NextTimes ==
    \/ \E undefined \in [1..Len(dataBlocks_) -> UndefinedTimes] :
           call_getFirstTimeFromAllDataBlocks(undefined)
    \/ call_getFinalTimeFromAllDataBlocks

\* the two queries on a file with any blocks and frame times
SpecTimes == InitTimes /\ [][NextTimes]_vars

\* =====================================================================
\*  properties of the first and the final time of a file
\* =====================================================================

\* the blocks with at least one written frame
WrittenBlocks == {i \in 1..Len(dataBlocks_) : dataBlocks_[i].writingFrameIndex > 0}

\* the time of the last and of the first written frame of block i
LastTimeOf(i) == disk[dataBlocks_[i].fullName].frames[dataBlocks_[i].writingFrameIndex].time
FirstTimeOf(i) == disk[dataBlocks_[i].fullName].frames[1].time

\* C29: getFinalTimeFromAllDataBlocks returns the largest of the times of the
\* last written frames of the blocks, whatever the times are (all negative and
\* all zero included), and -1 when there is no block
C29_FinalTimeIsMaximum ==
    result.fn = "getFinalTimeFromAllDataBlocks" =>
        IF dataBlocks_ = <<>> THEN result.ret = -1
        ELSE WrittenBlocks # {} =>
                 /\ \E i \in WrittenBlocks : result.ret = LastTimeOf(i)
                 /\ \A i \in WrittenBlocks : result.ret >= LastTimeOf(i)

\* C30: getFirstTimeFromAllDataBlocks returns the smallest of the times of the
\* first written frames of the blocks and -1 when there is no block; a block
\* without a written frame (writingFrameIndex = 0) adds no time to the minimum
C30_FirstTimeIsMinimum ==
    result.fn = "getFirstTimeFromAllDataBlocks" =>
        IF dataBlocks_ = <<>> THEN result.ret = -1
        ELSE WrittenBlocks # {} =>
                 /\ \E i \in WrittenBlocks : result.ret = FirstTimeOf(i)
                 /\ \A i \in WrittenBlocks : result.ret <= FirstTimeOf(i)


\* =====================================================================
\*  GmxH5mdIo::openFile on a path that cannot be opened
\* =====================================================================

\* bool isFileOpen()
isFileOpen == file_ >= 0

\* the FileIOError of openOrCreateGroup on a file that is not open
openOrCreateGroupError == "Cannot create group."

\* a failed open that leaves the list of blocks as it was
openFileDenied_keeps_blocks(mode) ==
    LET create == mode \in {"w", "a"} /\ (~fileExists \/ mode = "w")
    IN  /\ FlushRecords => Len(provenance) < MaxRecords
        /\ provenance' = flushedProvenance
        /\ numFlushes' = flushedCount
        /\ file_' = -1
        /\ dataBlocks_' = dataBlocks_
        /\ filemode_' = IF mode \in {"w", "a"} THEN filemode_ ELSE mode
        /\ h5err' = IF create THEN "Cannot create H5MD file."
                    ELSE IF mode = "a" THEN openOrCreateGroupError
                    ELSE "Cannot open H5MD file."
        /\ UNCHANGED <<fileExists, disk, properties, regvars, callvars>>

\* GmxH5mdIo::openFile(fileName, mode) when H5Fcreate or H5Fopen returns a
\* negative identifier: closeFile() and dataBlocks_.clear() come first; in the
\* modes w and a the function throws before it sets filemode_ (after H5Fcreate,
\* or in openOrCreateGroup after H5Fopen), in the mode r after it set filemode_
\* and found no group to discover
openFileDenied(mode) ==
    LET create == mode \in {"w", "a"} /\ (~fileExists \/ mode = "w")
    IN  /\ FlushRecords => Len(provenance) < MaxRecords
        /\ provenance' = flushedProvenance
        /\ numFlushes' = flushedCount
        /\ file_' = -1
        /\ dataBlocks_' = <<>>
        /\ filemode_' = IF mode \in {"w", "a"} THEN filemode_ ELSE mode
        /\ h5err' = IF create THEN "Cannot create H5MD file."
                    ELSE IF mode = "a" THEN openOrCreateGroupError
                    ELSE "Cannot open H5MD file."
        /\ UNCHANGED <<fileExists, disk, properties, regvars, callvars>>

NextOpenDenied ==
    \/ NextH5md
    \/ \E mode \in Modes : openFileDenied(mode)

\* the container on a file system that may refuse to open the path
SpecOpenDenied == Init /\ [][NextOpenDenied]_vars

\* =====================================================================
\*  properties of a failed open
\* =====================================================================

\* the messages of the gmx::FileIOError a failed open throws
OpenErrors == {"Cannot create H5MD file.", "Cannot open H5MD file.", openOrCreateGroupError}

C31_FailedOpenStep ==
    /\ h5err' \in OpenErrors
    /\ ~isFileOpen'
    /\ dataBlocks_' = <<>>

DataInputs == {"nullptr", "buffer"}

\* dataDimensionalitySecondDim: DIM values per particle, or none
SecondDimInputs == {0, 3}

\* GMX_ASSERT(condition, msg) aborts the program in a build with assertions
\* and is empty in a build with NDEBUG
AssertionFailed == "Assertion failed"

\* GmxH5mdIo::writeDataFrame(step, time, dataBlockFullName,
\* dataDimensionalityFirstDim, dataDimensionalitySecondDim, data, unit,
\* numberOfFramesPerChunk, ...) in a build with (NDEBUG) or without assertions.
\* With NDEBUG nothing looks at data or at the dimensions before the block is
\* looked up, created and appended to dataBlocks_; a block that exists is
\* written without a look at the dimensions. The write of a null buffer and the
\* construction of a block with a dimension below 1 fail in the storage layer.
writeDataFrameArgs(step, time, dataBlockFullName, dataDimensionalityFirstDim, dataDimensionalitySecondDim, data, numberOfFramesPerChunk, NDEBUG) ==
    LET valid == /\ data # "nullptr"
                 /\ dataDimensionalityFirstDim > 0 /\ dataDimensionalitySecondDim > 0
        found == FindBlock(dataBlocks_, dataBlockFullName)
        dataBlock == NewDataBlock(groupNameOf(dataBlockFullName),
                                  dataBlockNameOf(dataBlockFullName),
                                  numberOfFramesPerChunk)
        created == Append(dataBlocks_, dataBlock)
        withGroup == IF dataBlock.fullName \in DOMAIN disk THEN disk
                     ELSE DiskWith(disk, dataBlock.fullName,
                                   [chunk |-> dataDimensionalityFirstDim, frames |-> <<>>])
        target == IF found # 0 THEN dataBlocks_[found] ELSE dataBlock
    IN  IF valid
        THEN writeDataFrame(step, time, dataBlockFullName, dataDimensionalityFirstDim,
                            numberOfFramesPerChunk)
        ELSE /\ step = LastStepOnDisk(target.fullName) + 1
             /\ FrameIndexOf(target, step) < MaxFrames
             /\ IF ~NDEBUG
                THEN /\ h5err' = AssertionFailed
                     /\ UNCHANGED <<dataBlocks_, disk>>
                ELSE IF ~Writable
                THEN /\ h5err' = "storage error"
                     /\ UNCHANGED <<dataBlocks_, disk>>
                ELSE IF found # 0
                THEN IF data = "nullptr"
                     THEN /\ h5err' = "storage error"
                          /\ UNCHANGED <<dataBlocks_, disk>>
                     ELSE writeFrame(dataBlocks_, disk, found, step, time)
                ELSE /\ Len(dataBlocks_) < MaxBlocks
                     /\ h5err' = "storage error"
                     /\ IF dataDimensionalityFirstDim > 0 /\ dataDimensionalitySecondDim > 0
                        THEN /\ dataBlocks_' = created
                             /\ disk' = withGroup
                        ELSE UNCHANGED <<dataBlocks_, disk>>
             /\ UNCHANGED <<file_, filemode_, fileExists, provenance, numFlushes, properties,
                            regvars, callvars>>

WriteArgsInputs(q) == {0, dim1Of(q)} \X SecondDimInputs \X DataInputs \X BOOLEAN

NextWriteArgs ==
    \/ \E mode \in Modes : openFile(mode)
    \/ closeFile
    \/ \E q \in PathInputs, step \in Steps :
           \E time \in TimesOf(step), n \in FramesPerChunkInputs(q), x \in WriteArgsInputs(q) :
               writeDataFrameArgs(step, time, q, x[1], x[2], x[3], n, x[4])

\* the container written by callers that pass any arguments
SpecWriteArgs == Init /\ [][NextWriteArgs]_vars

\* =====================================================================
\*  properties of writeDataFrame with bad arguments
\* =====================================================================

\* C32: writeDataFrame fails, without creating a block in dataBlocks_ and without
\* writing a frame, when data is null, when one of the two dimensions is below 1,
\* or when the container is not open for writing (closed or open in read mode)
C32_BadArgumentsFail ==
    [][ \A q \in PathInputs, step \in Steps :
        \A time \in TimesOf(step), n \in FramesPerChunkInputs(q), x \in WriteArgsInputs(q) :
            (/\ writeDataFrameArgs(step, time, q, x[1], x[2], x[3], n, x[4])
             /\ (x[3] = "nullptr" \/ x[1] <= 0 \/ x[2] <= 0 \/ ~Writable))
                => /\ h5err' # "none"
                   /\ dataBlocks_' = dataBlocks_
                   /\ disk' = disk ]_vars


\* =====================================================================
\*  gmx_fio_fp_close, gmx_fio_int_get_file_md5 and the positions and checksums
\*  gmx_fio_get_output_file_positions returns
\* =====================================================================

\* in_ftpset(fio->iFTP, asize(ftpXDR), ftpXDR)
IsXdr(h) == iFTP[h] \in {"efTPR", "efTRR", "efEDR", "efXTC", "efMTX", "efCPT"}

\* a gmx_fio_fp_close that forgets the handle as well
do_gmx_fio_fp_close_unlinks(h, r) ==
    /\ Running
    /\ mem[h] = "alloc"
    /\ bOpen[h]
    /\ open_file_mutex = NoThread
    /\ fp[h] # NULL
    /\ Unlink(h)
    /\ fp' = [fp EXCEPT ![h] = NULL]
    /\ streams' = streams \ {fp[h]}
    /\ result' = [fn |-> "gmx_fio_fp_close", rc |-> r]
    /\ UNCHANGED <<open_files, open_file_mutex, mtx, mem, bOpen, bRead, bReadWrite, bStdio, iFTP,
                   pc, locals, held, live, closedPtrs, misuse, trav, h5vars>>

\* int gmx_fio_fp_close(t_fileio *fio), r being what ffclose returns; callers
\* pass a handle whose stream is still there
do_gmx_fio_fp_close(h, r) ==
    /\ Running
    /\ mem[h] = "alloc"
    /\ bOpen[h]
    /\ open_file_mutex = NoThread
    /\ fp[h] # NULL
    /\ IF ~IsXdr(h) /\ ~bStdio[h]
       THEN /\ fp' = [fp EXCEPT ![h] = NULL]
            /\ streams' = streams \ {fp[h]}
            /\ result' = [fn |-> "gmx_fio_fp_close", rc |-> r]
       ELSE /\ UNCHANGED <<fp, streams>>
            /\ result' = [fn |-> "gmx_fio_fp_close", rc |-> 0]
    /\ UNCHANGED <<open_files, open_file_mutex, next, prev, mtx, mem, bOpen, bRead, bReadWrite,
                   bStdio, iFTP, pc, locals, held, live, closedPtrs, misuse, trav, h5vars>>

\* the positions gmx_ftell reports, and what can go wrong with a stream
OffsetInputs == {0, 1, CPT_CHK_LEN, CPT_CHK_LEN + 1}
TroubleInputs == {"none", "seek", "read"}

\* gmx_ftell(NULL) is undefined: the program dies, or the call fails with -1
FtellNullOutcomes == {"SIGSEGV", "fails"}

\* static int gmx_fio_int_get_file_md5(fio, offset, digest): the value returned
\* and the bytes [from, to) of the file that went into the digest
gmx_fio_int_get_file_md5(h, offset, trouble) ==
    LET seek_offset == IF offset - CPT_CHK_LEN < 0 THEN 0 ELSE offset - CPT_CHK_LEN
        read_len    == offset - seek_offset
        seek        == IF fp[h] # NULL /\ bReadWrite[h]
                       THEN (IF trouble = "seek" THEN -1 ELSE 0)
                       ELSE -1
    IN  IF seek # 0 THEN [ret |-> -1, digest |-> <<>>]
        ELSE IF trouble = "read" THEN [ret |-> -1, digest |-> <<>>]
        ELSE [ret |-> read_len, digest |-> <<seek_offset, seek_offset + read_len>>]

\* the loop of gmx_fio_get_output_file_positions from element i of the list on
RECURSIVE PositionsLoop(_, _, _, _, _, _)
PositionsLoop(list, i, outputfiles, offsets, trouble, ftellNull) ==
    IF i > Len(list) THEN [died |-> FALSE, outputfiles |-> outputfiles]
    ELSE LET h == list[i]
             offset == IF fp[h] = NULL THEN -1 ELSE offsets[h]
             md5 == gmx_fio_int_get_file_md5(h, offset, trouble[h])
         IN  IF ~IsOutputFile(h)
             THEN PositionsLoop(list, i + 1, outputfiles, offsets, trouble, ftellNull)
             ELSE IF fp[h] = NULL /\ ftellNull = "SIGSEGV"
             THEN [died |-> TRUE, outputfiles |-> outputfiles]
             ELSE PositionsLoop(list, i + 1,
                                Append(outputfiles,
                                       [fio |-> h, offset |-> offset,
                                        chksum_size |-> md5.ret, chksum |-> md5.digest]),
                                offsets, trouble, ftellNull)

\* int gmx_fio_get_output_file_positions(p_outputfiles, p_nfiles) with the
\* position and the checksum of every entry
do_gmx_fio_get_output_file_positions_md5(offsets, trouble, ftellNull) ==
    /\ Running
    /\ open_file_mutex = NoThread
    /\ OpenList # <<>>
    /\ LET loop == PositionsLoop(OpenList, 1, <<>>, offsets, trouble, ftellNull)
       IN  result' = IF loop.died THEN [fn |-> "SIGSEGV"]
                     ELSE [fn |-> "gmx_fio_get_output_file_positions", rc |-> 0,
                           outputfiles |-> loop.outputfiles,
                           nfiles |-> Len(loop.outputfiles)]
    /\ UNCHANGED <<open_files, open_file_mutex, next, prev, mtx, mem, bOpen, fp, bRead,
                   bReadWrite, bStdio, iFTP, streams,
                   pc, locals, held, live, closedPtrs, misuse, trav, h5vars>>

\* log files opened with "w" and with "w+"
Md5Modes == {<<"w">>, <<"w", "+">>}
LogFile == [ftp |-> "efLOG", ascii |-> TRUE]

NextMd5 ==
    \/ \E h \in Handles, mode \in Md5Modes, rw \in BOOLEAN :
           do_gmx_fio_open(h, FALSE, mode, LogFile, rw)
    \/ \E h \in Handles, r \in CloseResults : do_gmx_fio_close(h, r)
    \/ \E h \in Handles, r \in CloseResults : do_gmx_fio_fp_close(h, r)
    \/ \E offsets \in [Handles -> OffsetInputs], trouble \in [Handles -> TroubleInputs],
          ftellNull \in FtellNullOutcomes :
           do_gmx_fio_get_output_file_positions_md5(offsets, trouble, ftellNull)

\* a program that opens log files and asks for the positions and checksums
SpecMd5 == Init /\ [][NextMd5]_vars

\* =====================================================================
\*  properties of the checksums
\* =====================================================================

\* the checksum of the entry of a handle can be computed
Computable(h, trouble) == fp[h] # NULL /\ bReadWrite[h] /\ trouble[h] = "none"

C33_Entry(e, offsets, trouble) ==
    IF Computable(e.fio, trouble)
    THEN /\ e.chksum_size = (IF offsets[e.fio] < CPT_CHK_LEN THEN offsets[e.fio]
                             ELSE CPT_CHK_LEN)
         /\ e.chksum = <<(IF offsets[e.fio] < CPT_CHK_LEN THEN 0
                          ELSE offsets[e.fio] - CPT_CHK_LEN), offsets[e.fio]>>
    ELSE e.chksum_size = -1

\* C33: the checksum of an output file at position offset covers the
\* min(offset, 1048576) bytes that end at offset and its size is that number;
\* when it cannot be computed (handle not read-write, no stream, seek or read
\* failure) the size is -1 and gmx_fio_get_output_file_positions goes on to the
\* end of the list without a fatal error
C33_ChecksumOfTail ==
    [][ \A offsets \in [Handles -> OffsetInputs], trouble \in [Handles -> TroubleInputs],
           ftellNull \in FtellNullOutcomes :
            do_gmx_fio_get_output_file_positions_md5(offsets, trouble, ftellNull)
                => /\ result'.fn = "gmx_fio_get_output_file_positions"
                   /\ result'.nfiles = Len(SelectSeq(OpenList, IsOutputFile))
                   /\ \A k \in 1..result'.nfiles :
                          C33_Entry(result'.outputfiles[k], offsets, trouble) ]_vars


\* =====================================================================
\*  properties of the block writeDataFrame constructs
\* =====================================================================

\* writeDataFrame found no block for the path, constructed one and wrote to it
C34_Created(q) ==
    /\ Writable
    /\ FindBlock(dataBlocks_, q) = 0
    /\ h5err' = "none"
    /\ Len(dataBlocks_') = Len(dataBlocks_) + 1

StandardBlocks == {LambdaPath, PositionPath}

\* the steps of the frames of a block of an archive: strictly increasing
StepSeqs ==
    {q \in SeqsUpTo(0..MaxFrames, MaxFrames) : \A i, j \in 1..Len(q) : i < j => q[i] < q[j]}

\* the frames of a block written at the given steps
FramesOfSteps(steps) == [k \in DOMAIN steps |-> [step |-> steps[k], time |-> steps[k]]]

\* an archive open for reading, its blocks as discovery found them
InitArchive ==
    /\ InitRegistry /\ InitCalls /\ misuse = FALSE
    /\ file_ = 1
    /\ filemode_ = "r"
    /\ fileExists = TRUE
    /\ \E stored \in SUBSET StandardBlocks :
       \E steps \in [stored -> StepSeqs] :
           disk = [q \in stored |-> [chunk |-> 1, frames |-> FramesOfSteps(steps[q])]]
    /\ dataBlocks_ = DiscoveredBlocks(disk)
    /\ provenance = <<>>
    /\ h5err = "none"
    /\ properties = <<>>
    /\ numFlushes = 0

\* dataBlocks_ after the calls of readNextFrameOfDataBlock that read a frame
BlocksAfterReading(reads) ==
    [i \in 1..Len(dataBlocks_) |->
        IF dataBlocks_[i].fullName \in reads
           /\ i = FirstBlockNamed(dataBlocks_, dataBlocks_[i].fullName)
        THEN [dataBlocks_[i] EXCEPT !.readingFrameIndex = @ + 1]
        ELSE dataBlocks_[i]]

\* a reader that reads the next frame of every requested block, whatever its step
readNextFrameOfStandardDataBlocks_any_step(requested) ==
    /\ isFileOpen
    /\ LET step  == getNextStepAndTimeToRead[1]
           reads == {q \in requested : readNextFrameOfDataBlockReturns(q, -1)}
       IN  /\ dataBlocks_' = BlocksAfterReading(reads)
           /\ result' = [fn |-> "readNextFrameOfStandardDataBlocks", requested |-> requested,
                         step |-> step, read |-> reads, ret |-> (reads # {})]
    /\ h5err' = "none"
    /\ UNCHANGED <<file_, filemode_, fileExists, disk, provenance, numFlushes, properties,
                   regvars, fiovars>>

\* bool readNextFrameOfStandardDataBlocks(file, step, time, lambda, box, x, v, f,
\* ...), `requested` being the blocks whose buffer is not a null pointer: every
\* one of them is read with readNextFrameOfDataBlock(name, buffer, *step), *step
\* coming from getNextStepAndTimeToRead(); a read moves the cursor of its own
\* block only
readNextFrameOfStandardDataBlocks(requested) ==
    /\ isFileOpen
    /\ LET step  == getNextStepAndTimeToRead[1]
           reads == {q \in requested : readNextFrameOfDataBlockReturns(q, step)}
       IN  /\ dataBlocks_' = BlocksAfterReading(reads)
           /\ result' = [fn |-> "readNextFrameOfStandardDataBlocks", requested |-> requested,
                         step |-> step, read |-> reads, ret |-> (reads # {})]
    /\ h5err' = "none"
    /\ UNCHANGED <<file_, filemode_, fileExists, disk, provenance, numFlushes, properties,
                   regvars, fiovars>>

NextArchive == \E requested \in SUBSET StandardBlocks : readNextFrameOfStandardDataBlocks(requested)

\* a reader of an archive
SpecArchive == InitArchive /\ [][NextArchive]_vars

\* =====================================================================
\*  properties of readNextFrameOfStandardDataBlocks
\* =====================================================================

\* block q of the file has a frame that was not read yet
HasUnreadFrame(q) ==
    \E i \in 1..Len(dataBlocks_) :
        /\ dataBlocks_[i].fullName = q
        /\ dataBlocks_[i].readingFrameIndex < dataBlocks_[i].writingFrameIndex

\* C35: readNextFrameOfStandardDataBlocks returns false only when none of the
\* requested blocks has an unread frame, so calling it until it returns false
\* delivers every frame of every requested block, also when the archive holds
\* blocks that are not requested or that were written at other steps
C35_FalseOnlyWhenExhausted ==
    [][ \A requested \in SUBSET StandardBlocks :
            (readNextFrameOfStandardDataBlocks(requested) /\ ~result'.ret)
                => \A q \in requested : ~HasUnreadFrame(q) ]_vars

\* the step of the frame the cursor of block i stood at before the call
StepAtCursor(i) == getStepOfFrame(dataBlocks_[i], dataBlocks_[i].readingFrameIndex)

\* what one call does to the cursors: a cursor moves by at most one, and only
\* over a frame of the step returned
C36_OneCall ==
    \A i \in 1..Len(dataBlocks_) :
        /\ dataBlocks_'[i].readingFrameIndex \in
               {dataBlocks_[i].readingFrameIndex, dataBlocks_[i].readingFrameIndex + 1}
        /\ dataBlocks_'[i].readingFrameIndex # dataBlocks_[i].readingFrameIndex
               => /\ StepAtCursor(i) = result'.step
                  /\ dataBlocks_[i].fullName \in result'.read
        /\ (dataBlocks_[i].fullName \in result'.read
            /\ i = FirstBlockNamed(dataBlocks_, dataBlocks_[i].fullName))
               => dataBlocks_'[i].readingFrameIndex = dataBlocks_[i].readingFrameIndex + 1

\* the call before was a successful call of readNextFrameOfStandardDataBlocks
AfterSuccess == result.fn = "readNextFrameOfStandardDataBlocks" /\ result.ret

\* C36 as claimed: in one call every frame read is of the step returned through
\* *step and no cursor moves by more than one; the blocks' steps being strictly
\* increasing, the steps returned by successive successful calls are strictly
\* increasing
C36_StepsIncrease ==
    [][ \A requested \in SUBSET StandardBlocks :
            readNextFrameOfStandardDataBlocks(requested)
                => /\ C36_OneCall
                   /\ (AfterSuccess /\ result'.ret) => result'.step > result.step ]_vars

\* C36: in one call every frame read is of the step returned through *step and
\* no cursor moves by more than one; the blocks' steps being strictly increasing,
\* the steps returned by successive successful calls that request the same
\* quantities are strictly increasing
C36_StepsIncreaseSameRequest ==
    [][ \A requested \in SUBSET StandardBlocks :
            readNextFrameOfStandardDataBlocks(requested)
                => /\ C36_OneCall
                   /\ (AfterSuccess /\ result'.ret /\ result.requested = requested)
                          => result'.step > result.step ]_vars

\* two successful calls for both blocks, the second one at a later step that only
\* one of the two blocks has
C36_Witness ==
    /\ AfterSuccess
    /\ result.requested = StandardBlocks
    /\ result.step > 0
    /\ Cardinality(result.read) = 1
    /\ Len(dataBlocks_) = 2
    /\ \A i \in 1..2 : dataBlocks_[i].readingFrameIndex >= 1
    /\ \E i \in 1..2 : dataBlocks_[i].readingFrameIndex = 2


\* =====================================================================
\*  properties of the order of the registry
\* =====================================================================

\* list q without its element h
Without(q, h) == SelectSeq(q, LAMBDA x : x # h)

\* what one step may do to the list: nothing, link a new handle behind the last
\* one, or take one handle out and leave the others in their order
C37_ListStep ==
    \/ OpenList' = OpenList
    \/ \E h \in Handles : /\ \A k \in 1..Len(OpenList) : OpenList[k] # h
                          /\ OpenList' = Append(OpenList, h)
    \/ \E h \in Handles : /\ \E k \in 1..Len(OpenList) : OpenList[k] = h
                          /\ OpenList' = Without(OpenList, h)

\* what one step may do to the cur of a traversal: gmx_fio_get_first hands out
\* the first handle of the list, gmx_fio_get_next the one behind cur
C37_VisitStep ==
    \A t \in Threads :
        (cur'[t] # cur[t] /\ cur'[t] # NULL)
            => IF pc[t] = "gf_unlock_head"
               THEN cur'[t] = OpenList[1]
               ELSE \E k \in 1..(Len(OpenList) - 1) :
                        OpenList[k] = cur[t] /\ OpenList[k + 1] = cur'[t]

\* C37: the registry keeps the order of opening: gmx_fio_insert links the new
\* handle right before the dummy head (at the end of the list) and gmx_fio_remove
\* leaves the order of the others, so the list is the open handles in the order
\* they were opened, and a traversal that starts with gmx_fio_get_first visits
\* them in that order
C37_OpenOrder == [][C37_ListStep /\ C37_VisitStep]_vars

\* a traversal is at the second handle of a list whose first handle was opened
\* first but lies at the higher address
C37_Witness ==
    /\ OpenList = <<2, 1>>
    /\ \E t \in trav : cur[t] = 1 /\ pc[t] = "loop"


\* a program that opens files, closes streams with gmx_fio_fp_close and closes files
NextFpClose ==
    \/ \E h \in Handles, fnIsNull \in BOOLEAN, mode \in PlainModes,
          ft \in FewFileTypes, rw \in BOOLEAN : do_gmx_fio_open(h, fnIsNull, mode, ft, rw)
    \/ \E h \in Handles, r \in CloseResults : do_gmx_fio_close(h, r)
    \/ \E h \in Handles, r \in CloseResults : do_gmx_fio_fp_close(h, r)

SpecFpClose == Init /\ [][NextFpClose]_vars

\* =====================================================================
\*  properties of gmx_fio_fp_close
\* =====================================================================

C38_FpCloseStep(h, r) ==
    /\ OpenList' = OpenList
    /\ next' = next /\ prev' = prev
    /\ mem' = mem
    /\ bOpen' = bOpen /\ bOpen'[h]
    /\ \A g \in Handles \ {h} : fp'[g] = fp[g]
    /\ IF IsXdr(h) \/ bStdio[h]
       THEN /\ fp'[h] = fp[h]
            /\ streams' = streams
            /\ result'.rc = 0
       ELSE /\ fp'[h] = NULL
            /\ streams' = streams \ {fp[h]}
            /\ result'.rc = r

\* C38: gmx_fio_fp_close closes the stream only and keeps the entry of the
\* registry: afterwards the handle is in the list at the place it had, its bOpen
\* is still true and no next or prev pointer has changed; for a handle of an XDR
\* file type or one bound to stdin/stdout nothing is closed
C38_FpCloseKeepsEntry ==
    [][ \A h \in Handles, r \in CloseResults :
            do_gmx_fio_fp_close(h, r) => C38_FpCloseStep(h, r) ]_vars

\* two open handles: the stream of the first one, a log file, was closed by
\* gmx_fio_fp_close, the second one is a checkpoint file (XDR) that
\* gmx_fio_fp_close left alone
C38_Witness ==
    /\ Len(OpenList) = 2
    /\ fp[OpenList[1]] = NULL /\ bOpen[OpenList[1]] /\ iFTP[OpenList[1]] = "efLOG"
    /\ iFTP[OpenList[2]] = "efCPT" /\ fp[OpenList[2]] \in streams
    /\ result.fn = "gmx_fio_fp_close" /\ result.rc = 0


\* ------------------------------------------------ init_mdoutf and done_mdoutf
\* fn2ftp of the names given for -dhdl and -field: both are xvg files
XvgFile == [ftp |-> "efXVG", ascii |-> TRUE]

\* sprintf(filemode, bAppendFiles ? "a+" : "w+")
filemode(bAppendFiles) == IF bAppendFiles THEN <<"a", "+">> ELSE <<"w", "+">>

\* the mode open_dhdl and xvgropen pass on to gmx_fio_fopen
XvgrOpenMode == <<"w">>

\* gmx_fio_fopen(fn, mode) for an xvg file name: gmx_fio_open puts the new handle h
\* at the end of the list, and the caller gets fio->fp
gmx_fio_fopen(h, mode) ==
    LET newmode == newmodeOf(mode, XvgFile)
        marked  == withBinaryMarker(newmode, XvgFile)
    IN  /\ open_file_mutex = NoThread
        /\ mem[h] = "free"
        /\ \A g \in Handles : mem[g] = "free" => h <= g
        /\ mem' = [mem EXCEPT ![h] = "alloc"]
        /\ iFTP' = [iFTP EXCEPT ![h] = XvgFile.ftp]
        /\ bStdio' = [bStdio EXCEPT ![h] = FALSE]
        /\ fp' = [fp EXCEPT ![h] = h]
        /\ streams' = streams \cup {h}
        /\ bRead' = [bRead EXCEPT ![h] = bReadOf(marked)]
        /\ bReadWrite' \in { [bReadWrite EXCEPT ![h] = rw] : rw \in bReadWriteOf(marked) }
        /\ bOpen' = [bOpen EXCEPT ![h] = TRUE]
        /\ InsertAtEnd(h)

\* the registry and the streams as a step that opens or closes nothing leaves them
NoFileTouched ==
    UNCHANGED <<open_files, next, prev, mem, bOpen, fp, bRead, bReadWrite, bStdio,
                iFTP, streams>>

\* the handles a call of init_mdoutf with these options takes from the allocator
NumOutputs(dhdl, field) == (IF dhdl THEN 1 ELSE 0) + (IF field THEN 1 ELSE 0)

\* init_mdoutf on the master node, up to the test for a separate dhdl file: of is
\* allocated with both streams NULL. dhdl is the value of the condition on efep,
\* nstdhdl, separate_dhdl_file and the integrator, field that of the condition on
\* -field and the electric field. opened is the history of the handles this call opens
init_mdoutf_call(bAppendFiles, dhdl, field) ==
    /\ result.fn = "none" \/ (result.fn = "done_mdoutf" /\ result.at = "done")
    /\ Cardinality({h \in Handles : mem[h] = "free"}) >= NumOutputs(dhdl, field)
    /\ result' = [fn |-> "init_mdoutf", at |-> "dhdl", bAppendFiles |-> bAppendFiles,
                  dhdl |-> dhdl, field |-> field, fp_dhdl |-> NULL, fp_field |-> NULL,
                  opened |-> {}]
    /\ NoFileTouched
    /\ UNCHANGED <<open_file_mutex, mtx, pc, locals, held, live, closedPtrs, misuse,
                   trav, h5vars>>

\* init_mdoutf: the separate dhdl file, opened by gmx_fio_fopen when appending and
\* by open_dhdl otherwise
init_mdoutf_dhdl ==
    /\ result.fn = "init_mdoutf"
    /\ result.at = "dhdl"
    /\ IF result.dhdl
       THEN \E h \in Handles :
              /\ gmx_fio_fopen(h, IF result.bAppendFiles
                                  THEN filemode(TRUE) ELSE XvgrOpenMode)
              /\ result' = [result EXCEPT !.fp_dhdl = h, !.opened = @ \cup {h},
                                          !.at = "field"]
       ELSE /\ result' = [result EXCEPT !.at = "field"]
            /\ NoFileTouched
    /\ UNCHANGED <<open_file_mutex, mtx, pc, locals, held, live, closedPtrs, misuse,
                   trav, h5vars>>

\* init_mdoutf: the field file. When appending, the stream of gmx_fio_fopen is
\* assigned to of->fp_dhdl; otherwise that of xvgropen is assigned to of->fp_field
init_mdoutf_field ==
    /\ result.fn = "init_mdoutf"
    /\ result.at = "field"
    /\ IF result.field
       THEN \E h \in Handles :
              IF result.bAppendFiles
              THEN /\ gmx_fio_fopen(h, filemode(TRUE))
                   /\ result' = [result EXCEPT !.fp_dhdl = h, !.opened = @ \cup {h},
                                               !.at = "returned"]
              ELSE /\ gmx_fio_fopen(h, XvgrOpenMode)
                   /\ result' = [result EXCEPT !.fp_field = h, !.opened = @ \cup {h},
                                               !.at = "returned"]
       ELSE /\ result' = [result EXCEPT !.at = "returned"]
            /\ NoFileTouched
    /\ UNCHANGED <<open_file_mutex, mtx, pc, locals, held, live, closedPtrs, misuse,
                   trav, h5vars>>

\* gmx_fio_fclose(f) of done_mdoutf, which drops the return value
mdoutf_fclose(f) ==
    /\ open_file_mutex = NoThread
    /\ FirstOfList
    /\ LET i == FindStream(OpenList, 1, f)
       IN  IF i = 0
           THEN /\ DummyMade
                /\ UNCHANGED <<bOpen, streams>>
           ELSE LET cl == OpenList[i]
                IN  /\ streams' = StreamsAfterClose(cl)
                    /\ bOpen' = [bOpen EXCEPT ![cl] = FALSE]
                    /\ Unlink(cl)
    /\ UNCHANGED <<mem, fp, bRead, bReadWrite, bStdio, iFTP>>

\* done_mdoutf: if (of->fp_dhdl != NULL) gmx_fio_fclose(of->fp_dhdl)
done_mdoutf_dhdl ==
    /\ result.fn = "init_mdoutf"
    /\ result.at = "returned"
    /\ IF result.fp_dhdl # NULL
       THEN mdoutf_fclose(result.fp_dhdl)
       ELSE NoFileTouched /\ UNCHANGED open_file_mutex
    /\ result' = [result EXCEPT !.fn = "done_mdoutf", !.at = "fp_field"]
    /\ UNCHANGED <<mtx, pc, locals, held, live, closedPtrs, misuse, trav, h5vars>>

\* done_mdoutf: if (of->fp_field != NULL) gmx_fio_fclose(of->fp_field), and sfree(of)
done_mdoutf_field ==
    /\ result.fn = "done_mdoutf"
    /\ result.at = "fp_field"
    /\ IF result.fp_field # NULL
       THEN mdoutf_fclose(result.fp_field)
       ELSE NoFileTouched /\ UNCHANGED open_file_mutex
    /\ result' = [result EXCEPT !.at = "done"]
    /\ UNCHANGED <<mtx, pc, locals, held, live, closedPtrs, misuse, trav, h5vars>>

NextMdoutf ==
    \/ \E bAppendFiles \in BOOLEAN, dhdl \in BOOLEAN, field \in BOOLEAN :
          init_mdoutf_call(bAppendFiles, dhdl, field)
    \/ init_mdoutf_dhdl
    \/ init_mdoutf_field
    \/ done_mdoutf_dhdl
    \/ done_mdoutf_field

\* runs of mdrun's output set-up and tear-down, one after the other
SpecMdoutf == Init /\ [][NextMdoutf]_vars

\* the handles in the list of open files
Registered == { OpenList[i] : i \in 1..Len(OpenList) }

\* the fields of gmx_mdoutf_t among fp_dhdl and fp_field that hold stream f
FieldsReferencing(f) ==
    (IF result.fp_dhdl = f THEN {"fp_dhdl"} ELSE {}) \cup
    (IF result.fp_field = f THEN {"fp_field"} ELSE {})

\* C39: when init_mdoutf has returned, the stream of every handle it opened is held
\* by exactly one of fp_dhdl and fp_field, and when done_mdoutf has returned after
\* it, none of the handles init_mdoutf opened is in the registry, whatever the append
\* flag, the separate dhdl output and the electric-field output are
C39_AllOpenedAreClosed ==
    /\ (result.fn = "init_mdoutf" /\ result.at = "returned")
          => \A h \in result.opened : Cardinality(FieldsReferencing(fp[h])) = 1
    /\ (result.fn = "done_mdoutf" /\ result.at = "done")
          => result.opened \cap Registered = {}

====
